---- MODULE Spec2Model ----
(***************************************************************************)
(* A model of the swarm_thing tool runtime: the ToolManager of             *)
(* src/src/tools.rs (tool store, merged program, pending queue and the     *)
(* capabilities registered on the script engine), the IPC message type of  *)
(* src/src/message.rs and the network listener of src/src/ipc.rs.          *)
(*                                                                         *)
(* Strings that travel on the wire are modelled by their structure (plain  *)
(* text, or the JSON object of one tagged variant); script sources are     *)
(* sequences of lexemes (function definitions, capability tokens, filler,  *)
(* a syntax error), so that compilation, classification and parsing are    *)
(* computed from the text and not assumed.                                 *)
(***************************************************************************)
EXTENDS Naturals, Sequences, FiniteSets, TLC

(***************************************************************************)
(* Bounds of the model.                                                    *)
(***************************************************************************)
\* wall-clock readings available: every queue_tool call, every listener
\* start and every handled request happens at a later reading
MaxClock == 3
\* lexemes in a script handed to the classifier on its own
MaxLexemes == 3

(***************************************************************************)
(* Script sources.                                                         *)
(***************************************************************************)
Fn(name, body) == [k |-> "fn", n |-> name, v |-> body]
Tok(name) == [k |-> "tok", n |-> name, v |-> 0]
Pad(count) == [k |-> "pad", n |-> "", v |-> count]
SyntaxError == [k |-> "bad", n |-> "", v |-> 0]

\* tools.rs:41, the size above which code is HighRisk
SizeLimit == 10000

FnNames == {"square", "cube"}
NoFn == 0

\* Script functions are told apart by name and number of parameters.
\* execute_tool passes no argument or one.
Signatures == FnNames \X {0, 1}

\* The function bodies of the pool, by number: body 4 takes no parameter,
\* the others one parameter x.  Bodies 1, 2 and 4 return x (nothing, for
\* body 4) + their suffix; body 3 returns square(x) + its suffix; body 5
\* raises a runtime error (a division by zero).
Params(body) == IF body = 4 THEN 0 ELSE 1
Callee(body) == IF body = 3 THEN "square" ELSE ""
Suffix(body) ==
  CASE body = 1 -> "_A"
    [] body = 2 -> "_A2"
    [] body = 4 -> "_A0"
    [] OTHER -> "_B"
Fault(body) == IF body = 5 THEN "Runtime error" ELSE ""

\* bytes a lexeme takes in the source text
LexLen(l) ==
  CASE l.k = "fn" -> 24
    [] l.k = "tok" ->
         (CASE l.n = "write_file" -> 10
            [] l.n = "clone_agent" -> 11
            [] l.n = "start_server" -> 12
            [] l.n = "std::process" -> 12
            [] l.n = "read_file" -> 9
            [] l.n = "scrape_url" -> 10
            [] l.n = "send_message" -> 12
            [] OTHER -> 8)
    [] l.k = "pad" -> l.v
    [] OTHER -> 1

RECURSIVE CodeLen(_)
CodeLen(code) ==
  IF code = <<>> THEN 0 ELSE LexLen(Head(code)) + CodeLen(Tail(code))

\* str::contains for a capability token
Contains(code, token) == \E i \in 1..Len(code) : code[i] = Tok(token)

\* a classifier whose size rule also fires at the limit itself
validate_tool_code_inclusive(code) ==
  IF CodeLen(code) >= SizeLimit THEN "HighRisk"
  ELSE IF Contains(code, "write_file") \/ Contains(code, "clone_agent")
          \/ Contains(code, "start_server") \/ Contains(code, "std::process")
       THEN "HighRisk"
  ELSE IF Contains(code, "read_file") \/ Contains(code, "scrape_url")
       THEN "MediumRisk"
  ELSE IF Contains(code, "send_message") THEN "LowRisk"
  ELSE "Safe"

\* a classifier that looks for the MediumRisk tokens first
validate_tool_code_medium_first(code) ==
  IF CodeLen(code) > SizeLimit THEN "HighRisk"
  ELSE IF Contains(code, "read_file") \/ Contains(code, "scrape_url")
       THEN "MediumRisk"
  ELSE IF Contains(code, "write_file") \/ Contains(code, "clone_agent")
          \/ Contains(code, "start_server") \/ Contains(code, "std::process")
       THEN "HighRisk"
  ELSE IF Contains(code, "send_message") THEN "LowRisk"
  ELSE "Safe"

validate_tool_code(code) ==
  IF CodeLen(code) > SizeLimit THEN "HighRisk"
  ELSE IF Contains(code, "write_file") \/ Contains(code, "clone_agent")
          \/ Contains(code, "start_server") \/ Contains(code, "std::process")
       THEN "HighRisk"
  ELSE IF Contains(code, "read_file") \/ Contains(code, "scrape_url")
       THEN "MediumRisk"
  ELSE IF Contains(code, "send_message") THEN "LowRisk"
  ELSE "Safe"

\* Engine::compile: a syntax error anywhere fails the whole script
Compiles(code) == \A i \in 1..Len(code) : code[i].k # "bad"

\* the AST of a script: each signature with the body the script defines
\* for it (the last definition in the text), NoFn where it defines none
RECURSIVE DefOf(_, _)
DefOf(code, f) ==
  IF code = <<>> THEN NoFn
  ELSE LET l == code[Len(code)]
       IN IF l.k = "fn" /\ <<l.n, Params(l.v)>> = f THEN l.v
          ELSE DefOf(SubSeq(code, 1, Len(code) - 1), f)

compile(code) == [f \in Signatures |-> DefOf(code, f)]

merge_keep_old(ast, addition) ==
  [f \in Signatures |-> IF ast[f] # NoFn THEN ast[f] ELSE addition[f]]

\* AST += AST: the addition's definition overrides one of the same name
merge(ast, addition) ==
  [f \in Signatures |-> IF addition[f] # NoFn THEN addition[f] ELSE ast[f]]

EmptyAst == [f \in Signatures |-> NoFn]

(***************************************************************************)
(* Input pools.                                                            *)
(***************************************************************************)
Names == {"square", "cube"}
\* a name that leads out of the tools directory: create_tool joins the name
\* to the directory as it is
Escaping == "../escape"
\* the names a file can be written under: <tools_dir>/<name>.rhai
Paths == Names \cup {Escaping}

SquareV1 == <<Fn("square", 1)>>
SquareV2 == <<Fn("square", 2), Tok("write_file")>>
Broken == <<Fn("cube", 1), SyntaxError>>
CubeOfSquare == <<Fn("cube", 3)>>
CubeFaults == <<Fn("cube", 5)>>
SquareV0 == <<Fn("square", 4)>>
CodePool == {SquareV1, SquareV2, Broken}

None == [some |-> FALSE, val |-> ""]
Some(s) == [some |-> TRUE, val |-> s]

SafetyLevels == {"Safe", "LowRisk", "MediumRisk", "HighRisk"}

\* a file that does not exist
NoFile == <<[k |-> "nofile", n |-> "", v |-> 0]>>

(***************************************************************************)
(* Wire strings and IpcMessage.                                            *)
(***************************************************************************)
Plain(s) == [fmt |-> "plain", text |-> s]
\* a JSON text that is not an object (a number, a quoted string, an array)
JsonScalar == [fmt |-> "scalar"]

\* the value of one member of a JSON object: a string, null, a value of
\* another type, or no such member
JStr(s) == [j |-> "str", s |-> s]
JNull == [j |-> "null"]
JNum == [j |-> "num"]
Absent == [j |-> "absent"]

\* a JSON object, by the members the message types read; members of other
\* names are ignored by the parser and are left out
JsonObject(t, content, n, c, d, l) ==
  [fmt |-> "json", type |-> t, content |-> content, name |-> n, code |-> c,
   description |-> d, safety_level |-> l]
JsonText(c) == JsonObject(JStr("Text"), JStr(c), Absent, Absent, Absent, Absent)
JsonDescription(d) == IF d.some THEN JStr(d.val) ELSE JNull
JsonToolShare(n, c, d, l) ==
  JsonObject(JStr("ToolShare"), Absent, JStr(n), JStr(c), JsonDescription(d),
             JStr(l))
JsonToolRequest(n) ==
  JsonObject(JStr("ToolRequest"), Absent, JStr(n), Absent, Absent, Absent)
\* a JSON object whose type tag names no variant
JsonOther(t) == JsonObject(JStr(t), Absent, Absent, Absent, Absent, Absent)

text(content) == [type |-> "Text", content |-> content]
tool_share(n, c, d, l) ==
  [type |-> "ToolShare", name |-> n, code |-> c, description |-> d,
   safety_level |-> l]
tool_request(n) == [type |-> "ToolRequest", name |-> n]

\* serde_json::from_str::<IpcMessage>: the variant the tag names, when every
\* member that variant requires is there with its type; an Option member may
\* be missing or null
IsStr(v) == v.j = "str"
ParsesAs(json, t) == json.fmt = "json" /\ json.type = JStr(t)
from_str_ok(json) ==
  \/ ParsesAs(json, "Text") /\ IsStr(json.content)
  \/ /\ ParsesAs(json, "ToolShare")
     /\ IsStr(json.name)
     /\ IsStr(json.code)
     /\ json.description.j \in {"str", "null", "absent"}
     /\ IsStr(json.safety_level)
     /\ json.safety_level.s \in SafetyLevels
  \/ ParsesAs(json, "ToolRequest") /\ IsStr(json.name)
from_str(json) ==
  IF json.type = JStr("Text") THEN text(json.content.s)
  ELSE IF json.type = JStr("ToolShare")
       THEN tool_share(json.name.s, json.code.s,
                       IF IsStr(json.description)
                       THEN Some(json.description.s) ELSE None,
                       json.safety_level.s)
  ELSE tool_request(json.name.s)

\* a parser that fills in the members a tagged object lacks
from_json_or_text_lenient(json) ==
  IF json.fmt = "json" /\ json.type = JStr("ToolShare")
  THEN tool_share(IF IsStr(json.name) THEN json.name.s ELSE "",
                  IF IsStr(json.code) THEN json.code.s ELSE <<>>,
                  IF IsStr(json.description)
                  THEN Some(json.description.s) ELSE None,
                  IF IsStr(json.safety_level) THEN json.safety_level.s
                  ELSE "Safe")
  ELSE IF from_str_ok(json) THEN from_str(json)
  ELSE text(json)

from_json_or_text(json) ==
  IF from_str_ok(json) THEN from_str(json) ELSE text(json)

\* a serialiser that leaves the tag out
to_json_untagged(m) ==
  IF m.type = "Text"
  THEN JsonObject(Absent, JStr(m.content), Absent, Absent, Absent, Absent)
  ELSE IF m.type = "ToolShare"
       THEN JsonObject(Absent, Absent, JStr(m.name), JStr(m.code),
                       JsonDescription(m.description), JStr(m.safety_level))
  ELSE JsonObject(Absent, Absent, JStr(m.name), Absent, Absent, Absent)

to_json(m) ==
  IF m.type = "Text" THEN JsonText(m.content)
  ELSE IF m.type = "ToolShare"
       THEN JsonToolShare(m.name, m.code, m.description, m.safety_level)
  ELSE JsonToolRequest(m.name)

\* the payloads a peer posts as the envelope's content
SharePayloads ==
  { JsonToolShare("square", SquareV1, Some("squares"), "Safe"),
    JsonToolShare("square", SquareV2, None, "Safe"),
    JsonToolShare("cube", Broken, None, "HighRisk") }
TextPayloads == { Plain("hello"), JsonText(Plain("hi")) }
RequestPayloads == { JsonToolRequest("square") }
Payloads == SharePayloads \cup TextPayloads \cup RequestPayloads

PortArgs == {"9999", "x"}

(***************************************************************************)
(* State.                                                                  *)
(***************************************************************************)
VARIABLES
  files,          \* tool name -> source of <tools_dir>/<name>.rhai, or NoFile
  global_ast,     \* ToolManager.global_ast: signature -> body, or NoFn
  pending_tools,  \* ToolManager.pending_tools, shared with every listener
  servers,        \* listeners started: each its port and IpcState.messages
  clock,          \* SystemTime::now()
  ret,            \* the operation that returned last, and what it returned
  latest,         \* history: signature -> the source merged last among
                  \* those that define it, or NoFile
  threads         \* the holder of the pending_tools mutex, where each
                  \* thread is in the operation it runs, and the history
                  \* of the queue; at rest when operations run one at a time

vars ==
  <<files, global_ast, pending_tools, servers, clock, ret, latest, threads>>

Ret(op, arg, ok, msg, val) ==
  [op |-> op, arg |-> arg, ok |-> ok, msg |-> msg, val |-> val]
NoVal == [none |-> TRUE]

PendingTool(name, code, source_agent, received_at, description, safety_level) ==
  [name |-> name, code |-> code, source_agent |-> source_agent,
   received_at |-> received_at, description |-> description,
   safety_level |-> safety_level]

\* the main thread, which runs the interactive loop, and the threads that
\* handle requests for the listeners
Listeners == {"l1", "l2"}
Threads == {"main"} \cup Listeners

\* a thread between operations
NoTool == PendingTool("", <<>>, "", 0, [some |-> FALSE, val |-> ""], "")
Idle ==
  [pc |-> "idle", op |-> "", arg |-> "", n |-> 0, tool |-> NoTool,
   snap |-> <<>>, for |-> "", out |-> "", content |-> Plain("")]
\* no thread in an operation, the mutex free, nothing pushed or removed yet
AtRest ==
  [lock |-> "", run |-> [t \in Threads |-> Idle],
   pushed |-> <<>>, taken |-> <<>>, installed |-> <<>>]

\* the state as one value, so that an operation is a function of it
State ==
  [files |-> files, global_ast |-> global_ast, pending_tools |-> pending_tools,
   servers |-> servers, clock |-> clock, ret |-> ret]

\* ToolManager::new in a fresh directory: no tool file, the AST of "", an
\* empty queue, no listener
Init ==
  /\ files = [n \in Paths |-> NoFile]
  /\ global_ast = EmptyAst
  /\ pending_tools = <<>>
  /\ servers = <<>>
  /\ clock = 0
  /\ ret = Ret("new", "", TRUE, "", NoVal)
  /\ latest = [f \in Signatures |-> NoFile]
  /\ threads = AtRest

(***************************************************************************)
(* Queue helpers: Vec::iter().position and Vec::remove.                    *)
(***************************************************************************)
position_last(tools, name) ==
  IF \E i \in 1..Len(tools) : tools[i].name = name
  THEN CHOOSE i \in 1..Len(tools) :
         /\ tools[i].name = name
         /\ \A j \in (i + 1)..Len(tools) : tools[j].name # name
  ELSE 0

\* index of the first entry named name, 0 when there is none
position(tools, name) ==
  IF \E i \in 1..Len(tools) : tools[i].name = name
  THEN CHOOSE i \in 1..Len(tools) :
         /\ tools[i].name = name
         /\ \A j \in 1..(i - 1) : tools[j].name # name
  ELSE 0

remove(tools, index) ==
  SubSeq(tools, 1, index - 1) \o SubSeq(tools, index + 1, Len(tools))

\* the text list_pending_tools builds, line by line
Listing(tools) ==
  IF tools = <<>> THEN [empty |-> TRUE, lines |-> <<>>]
  ELSE [empty |-> FALSE,
        lines |-> [i \in 1..Len(tools) |->
                     [idx |-> i, name |-> tools[i].name,
                      safety |-> tools[i].safety_level,
                      from |-> tools[i].source_agent,
                      description |-> tools[i].description]]]

(***************************************************************************)
(* ToolManager methods.  wr is the outcome of fs::write.                   *)
(***************************************************************************)
\* what create_tool leaves in ret: the code it was given and the source it
\* found under the name
Created(st, name, code, ok, msg) ==
  Ret("create_tool", name, ok, msg,
      [code |-> code, replaced |-> st.files[name]])

\* a create_tool that keeps the source a name already has
create_tool_keep_existing(st, name, code, wr) ==
  IF ~wr THEN [st EXCEPT !.ret = Created(st, name, code, FALSE, "io error")]
  ELSE IF st.files[name] # NoFile
  THEN [st EXCEPT
          !.ret = Created(st, name, code, TRUE, "created successfully")]
  ELSE IF ~Compiles(code)
  THEN [st EXCEPT
          !.files[name] = code,
          !.ret = Created(st, name, code, FALSE, "Rhai compile error")]
  ELSE [st EXCEPT
          !.files[name] = code,
          !.global_ast = merge(@, compile(code)),
          !.ret = Created(st, name, code, TRUE, "created successfully")]

\* a create_tool that is done once the file is written
create_tool_store_only(st, name, code, wr) ==
  IF ~wr THEN [st EXCEPT !.ret = Created(st, name, code, FALSE, "io error")]
  ELSE [st EXCEPT
          !.files[name] = code,
          !.global_ast = IF Compiles(code) THEN merge(@, compile(code)) ELSE @,
          !.ret = Created(st, name, code, TRUE, "created successfully")]

create_tool(st, name, code, wr) ==
  IF ~wr THEN [st EXCEPT !.ret = Created(st, name, code, FALSE, "io error")]
  ELSE LET written == [st EXCEPT !.files[name] = code]
       IN IF ~Compiles(code)
          THEN [written EXCEPT
                  !.ret = Created(st, name, code, FALSE, "Rhai compile error")]
          ELSE [written EXCEPT
                  !.global_ast = merge(@, compile(code)),
                  !.ret = Created(st, name, code, TRUE, "created successfully")]

Value(v) == [ok |-> TRUE, value |-> v, err |-> ""]
Error(e) == [ok |-> FALSE, value |-> <<>>, err |-> e]

\* a call that resolves the calls of a body only in the script of the body
call_fn_own_script(ast, f, x) ==
  LET sig == <<f, Len(x)>>
      arg == IF x = <<>> THEN <<>> ELSE x[1]
  IN IF sig \notin Signatures THEN Error("Function not found")
     ELSE IF ast[sig] = NoFn THEN Error("Function not found")
     ELSE IF Fault(ast[sig]) # "" THEN Error(Fault(ast[sig]))
     ELSE IF Callee(ast[sig]) = "" THEN Value(Append(arg, Suffix(ast[sig])))
     ELSE Error("Function not found")

\* a call of f with the arguments x (none or one) against the functions of
\* ast: the function of that name and that many parameters.  A string is the
\* sequence of the pieces it was concatenated from.  A call made by a body
\* resolves in the same ast.
RECURSIVE call_fn(_, _, _)
call_fn(ast, f, x) ==
  LET sig == <<f, Len(x)>>
      arg == IF x = <<>> THEN <<>> ELSE x[1]
  IN IF sig \notin Signatures THEN Error("Function not found")
     ELSE IF ast[sig] = NoFn THEN Error("Function not found")
     ELSE IF Fault(ast[sig]) # "" THEN Error(Fault(ast[sig]))
     ELSE IF Callee(ast[sig]) = "" THEN Value(Append(arg, Suffix(ast[sig])))
     ELSE LET inner == call_fn(ast, Callee(ast[sig]), x)
          IN IF inner.ok THEN Value(Append(inner.value, Suffix(ast[sig])))
             ELSE inner

queue_tool_dedup(st, name, code, source_agent, description) ==
  LET safety_level == validate_tool_code(code)
      pending == PendingTool(name, code, source_agent, st.clock, description,
                             safety_level)
  IN [st EXCEPT
        !.pending_tools =
           IF position(@, name) # 0 THEN @ ELSE Append(@, pending),
        !.clock = @ + 1,
        !.ret = Ret("queue_tool", name, TRUE, "queued for approval",
                    [safety |-> safety_level])]

queue_tool(st, name, code, source_agent, description) ==
  LET safety_level == validate_tool_code(code)
      pending == PendingTool(name, code, source_agent, st.clock, description,
                             safety_level)
  IN [st EXCEPT
        !.pending_tools = Append(@, pending),
        !.clock = @ + 1,
        !.ret = Ret("queue_tool", name, TRUE, "queued for approval",
                    [safety |-> safety_level])]

\* an approve_tool that takes the entry out of the queue only once it is
\* installed
approve_tool_install_first(st, name, wr) ==
  LET index == position(st.pending_tools, name)
  IN IF index # 0
     THEN LET tool == st.pending_tools[index]
              made == create_tool(st, tool.name, tool.code, wr)
          IN IF made.ret.ok
             THEN [made EXCEPT
                     !.pending_tools = remove(@, index),
                     !.ret = Ret("approve_tool", name, TRUE,
                                 "approved and installed successfully", NoVal)]
             ELSE [made EXCEPT
                     !.ret = Ret("approve_tool", name, FALSE, made.ret.msg, NoVal)]
     ELSE [st EXCEPT
             !.ret = Ret("approve_tool", name, FALSE,
                         "not found in pending queue", NoVal)]

approve_tool(st, name, wr) ==
  LET index == position(st.pending_tools, name)
  IN IF index # 0
     THEN LET tool == st.pending_tools[index]
              taken == [st EXCEPT !.pending_tools = remove(@, index)]
              made == create_tool(taken, tool.name, tool.code, wr)
          IN IF made.ret.ok
             THEN [made EXCEPT
                     !.ret = Ret("approve_tool", name, TRUE,
                                 "approved and installed successfully", NoVal)]
             ELSE [made EXCEPT
                     !.ret = Ret("approve_tool", name, FALSE, made.ret.msg, NoVal)]
     ELSE [st EXCEPT
             !.ret = Ret("approve_tool", name, FALSE,
                         "not found in pending queue", NoVal)]

reject_tool_installs(st, name) ==
  LET index == position(st.pending_tools, name)
  IN IF index # 0
     THEN [st EXCEPT
             !.pending_tools = remove(@, index),
             !.files[name] = st.pending_tools[index].code,
             !.ret = Ret("reject_tool", name, TRUE,
                         "rejected and removed from queue", NoVal)]
     ELSE [st EXCEPT
             !.ret = Ret("reject_tool", name, FALSE,
                         "not found in pending queue", NoVal)]

reject_tool(st, name) ==
  LET index == position(st.pending_tools, name)
  IN IF index # 0
     THEN [st EXCEPT
             !.pending_tools = remove(@, index),
             !.ret = Ret("reject_tool", name, TRUE,
                         "rejected and removed from queue", NoVal)]
     ELSE [st EXCEPT
             !.ret = Ret("reject_tool", name, FALSE,
                         "not found in pending queue", NoVal)]

list_pending_tools(st) ==
  [st EXCEPT
     !.ret = Ret("list_pending_tools", "", TRUE,
                 IF st.pending_tools = <<>> THEN "No tools pending approval."
                 ELSE "Pending Tools:",
                 Listing(st.pending_tools))]

(***************************************************************************)
(* Capabilities registered on the engine (closures of ToolManager::new).   *)
(* They return a string in every case, so ok is always TRUE.               *)
(***************************************************************************)
cap_approve_tool_keep_entry(st, name, wr) ==
  LET index == position(st.pending_tools, name)
  IN IF index # 0 /\ wr
     THEN [st EXCEPT
             !.files[st.pending_tools[index].name] = st.pending_tools[index].code,
             !.ret = Ret("cap_approve_tool", name, TRUE,
                         "approved and saved to disk. It will be available after reload.",
                         NoVal)]
     ELSE [st EXCEPT
             !.ret = Ret("cap_approve_tool", name, TRUE,
                         "not found in pending queue", NoVal)]

cap_approve_tool(st, name, wr) ==
  LET index == position(st.pending_tools, name)
  IN IF index # 0
     THEN LET tool == st.pending_tools[index]
              taken == [st EXCEPT !.pending_tools = remove(@, index)]
          IN IF ~wr
             THEN [taken EXCEPT
                     !.ret = Ret("cap_approve_tool", name, TRUE,
                                 "Error writing tool file", NoVal)]
             ELSE [taken EXCEPT
                     !.files[tool.name] = tool.code,
                     !.ret = Ret("cap_approve_tool", name, TRUE,
                                 "approved and saved to disk. It will be available after reload.",
                                 NoVal)]
     ELSE [st EXCEPT
             !.ret = Ret("cap_approve_tool", name, TRUE,
                         "not found in pending queue", NoVal)]

cap_reject_tool_pop_any(st, name) ==
  LET index == position(st.pending_tools, name)
  IN IF index # 0
     THEN [st EXCEPT
             !.pending_tools = remove(@, index),
             !.ret = Ret("cap_reject_tool", name, TRUE,
                         "rejected and removed from queue", NoVal)]
     ELSE [st EXCEPT
             !.pending_tools = IF @ = <<>> THEN @ ELSE Tail(@),
             !.ret = Ret("cap_reject_tool", name, TRUE,
                         "not found in pending queue", NoVal)]

cap_reject_tool(st, name) ==
  LET index == position(st.pending_tools, name)
  IN IF index # 0
     THEN [st EXCEPT
             !.pending_tools = remove(@, index),
             !.ret = Ret("cap_reject_tool", name, TRUE,
                         "rejected and removed from queue", NoVal)]
     ELSE [st EXCEPT
             !.ret = Ret("cap_reject_tool", name, TRUE,
                         "not found in pending queue", NoVal)]

cap_list_pending_tools(st) ==
  [st EXCEPT
     !.ret = Ret("cap_list_pending_tools", "", TRUE,
                 IF st.pending_tools = <<>> THEN "No tools pending approval."
                 ELSE "Pending Tools:",
                 Listing(st.pending_tools))]

\* port.parse().unwrap_or(8080)
ParsePort(port) == IF port = "9999" THEN 9999 ELSE 8080

\* what start_server leaves in ret: the port, and whether the thread it
\* spawned bound it (the capability does not wait for that)
Started(port, bound) ==
  Ret("start_server", port, TRUE, "IPC server starting on port",
      [port |-> ParsePort(port), bound |-> bound])

\* a start_server whose listener binds a port that a listener of this
\* runtime holds already
start_server_rebinding(st, port, free) ==
  [st EXCEPT
     !.servers = IF free
                 THEN Append(@, [port |-> ParsePort(port), messages |-> <<>>])
                 ELSE @,
     !.clock = @ + 1,
     !.ret = Started(port, free)]

\* spawns a thread running start_http_server with a fresh IpcState over the
\* shared queue, and returns at once.  The thread binds 127.0.0.1:port; the
\* bind fails, and the thread ends with "Server error" on stderr, when the
\* port is held by a listener started earlier or by another process
\* (free = FALSE).
start_server(st, port, free) ==
  LET bound == /\ free
               /\ \A i \in 1..Len(st.servers) :
                    st.servers[i].port # ParsePort(port)
  IN [st EXCEPT
        !.servers = IF bound
                    THEN Append(@, [port |-> ParsePort(port), messages |-> <<>>])
                    ELSE @,
        !.clock = @ + 1,
        !.ret = Started(port, bound)]

(***************************************************************************)
(* The listener: handle_message of listener i on the envelope's content.   *)
(***************************************************************************)
\* what a handled request leaves in ret: the content it was posted with, the
\* `received` field of the response, and the requests the handler itself
\* posted to peers (the handler has no HTTP client: none)
Handled(name, msg, content, received) ==
  Ret("handle_message", name, TRUE, msg,
      [content |-> content, received |-> received, posted |-> <<>>])
Ack(kind, name) == [ack |-> kind, name |-> name]

handle_message_auto_install(st, i, content) ==
  LET ipc_msg == from_json_or_text(content)
  IN IF ipc_msg.type = "ToolShare"
     THEN [create_tool(st, ipc_msg.name, ipc_msg.code, TRUE) EXCEPT
             !.clock = @ + 1,
             !.ret = Handled(ipc_msg.name, "received and queued for approval.",
                             content, Ack("queued", ipc_msg.name))]
     ELSE [st EXCEPT
             !.clock = @ + 1,
             !.ret = Handled("", "other", content, Ack("other", ""))]

handle_message_prepend(st, i, content) ==
  LET ipc_msg == from_json_or_text(content)
  IN IF ipc_msg.type = "ToolShare"
     THEN [st EXCEPT
             !.pending_tools =
                <<PendingTool(ipc_msg.name, ipc_msg.code, "remote_agent",
                              st.clock, ipc_msg.description,
                              ipc_msg.safety_level)>> \o @,
             !.clock = @ + 1,
             !.ret = Handled(ipc_msg.name, "received and queued for approval.",
                             content, Ack("queued", ipc_msg.name))]
     ELSE [st EXCEPT
             !.clock = @ + 1,
             !.ret = Handled("", "other", content, Ack("other", ""))]

handle_message_log_raw(st, i, content) ==
  LET ipc_msg == from_json_or_text(content)
  IN IF ipc_msg.type = "Text"
     THEN [st EXCEPT
             !.servers[i].messages = Append(@, content),
             !.clock = @ + 1,
             !.ret = Handled("", "echo", content, ipc_msg.content)]
     ELSE [st EXCEPT
             !.clock = @ + 1,
             !.ret = Handled("", "other", content, Ack("other", ""))]

\* a listener that answers a request for a tool by posting the tool back
handle_message_auto_respond(st, i, content) ==
  LET ipc_msg == from_json_or_text(content)
  IN CASE ipc_msg.type = "ToolShare" ->
            LET pending == PendingTool(ipc_msg.name, ipc_msg.code,
                                       "remote_agent", st.clock,
                                       ipc_msg.description,
                                       ipc_msg.safety_level)
            IN [st EXCEPT
                  !.pending_tools = Append(@, pending),
                  !.clock = @ + 1,
                  !.ret = Handled(ipc_msg.name,
                                  "received and queued for approval.",
                                  content, Ack("queued", ipc_msg.name))]
       [] ipc_msg.type = "Text" ->
            [st EXCEPT
               !.servers[i].messages = Append(@, ipc_msg.content),
               !.clock = @ + 1,
               !.ret = Handled("", "echo", content, ipc_msg.content)]
       [] ipc_msg.type = "ToolRequest" ->
            [st EXCEPT
               !.clock = @ + 1,
               !.ret = [Handled(ipc_msg.name, "sent", content,
                                Ack("sent", ipc_msg.name))
                        EXCEPT !.val.posted =
                          <<to_json(tool_share(ipc_msg.name,
                                               st.files[ipc_msg.name], None,
                                               "Safe"))>>]]

\* the lock of the queue cannot be poisoned (no holder panics), so the
\* "Could not lock tool queue" arm is unreachable and left out
handle_message(st, i, content) ==
  LET ipc_msg == from_json_or_text(content)
  IN CASE ipc_msg.type = "ToolShare" ->
            LET pending == PendingTool(ipc_msg.name, ipc_msg.code,
                                       "remote_agent", st.clock,
                                       ipc_msg.description,
                                       ipc_msg.safety_level)
            IN [st EXCEPT
                  !.pending_tools = Append(@, pending),
                  !.clock = @ + 1,
                  !.ret = Handled(ipc_msg.name,
                                  "received and queued for approval.",
                                  content, Ack("queued", ipc_msg.name))]
       [] ipc_msg.type = "Text" ->
            [st EXCEPT
               !.servers[i].messages = Append(@, ipc_msg.content),
               !.clock = @ + 1,
               !.ret = Handled("", "echo", content, ipc_msg.content)]
       [] ipc_msg.type = "ToolRequest" ->
            [st EXCEPT
               !.clock = @ + 1,
               !.ret = Handled(ipc_msg.name,
                               "received (auto-response not implemented)",
                               content, Ack("not implemented", ipc_msg.name))]

(***************************************************************************)
(* load_tools: the directory is scanned in the order read_dir yields, and  *)
(* each script is compiled and merged as it is met.                        *)
(***************************************************************************)
\* the tools with a script file in the directory: the stems read_dir finds
Stored(st) == { n \in Names : st.files[n] # NoFile }

list_tools(st) ==
  [st EXCEPT
     !.ret = Ret("list_tools", "", TRUE, "", [tools |-> Stored(st)])]

\* the orders in which read_dir may yield the entries s
RECURSIVE Orders(_)
Orders(s) ==
  IF s = {} THEN { <<>> }
  ELSE UNION { { <<n>> \o o : o \in Orders(s \ {n}) } : n \in s }

\* what load_tools leaves in ret: the entries merged before it returned
Loaded(ok, msg, merged) == Ret("load_tools", "", ok, msg, [merged |-> merged])

\* the loop of load_tools over the entries still to come; the ? on compile
\* returns from inside the loop
RECURSIVE load_from(_, _, _)
load_from(st, order, merged) ==
  IF order = <<>> THEN [st EXCEPT !.ret = Loaded(TRUE, "", merged)]
  ELSE LET script == st.files[Head(order)]
       IN IF ~Compiles(script)
          THEN [st EXCEPT !.ret = Loaded(FALSE, "Rhai compile error in", merged)]
          ELSE load_from([st EXCEPT !.global_ast = merge(@, compile(script))],
                         Tail(order), Append(merged, Head(order)))

load_tools(st, order) == load_from(st, order, <<>>)

(***************************************************************************)
(* Outbound: the capabilities send_message and share_tool post one HTTP    *)
(* request and block until the response is read.  A request to a port this *)
(* runtime listens on is served by one of its own listeners.               *)
(***************************************************************************)
Url(port) == [port |-> port, path |-> "/message"]
\* the body send_message builds: json!({"content": message})
Envelope(content) ==
  JsonObject(Absent, JStr(content), Absent, Absent, Absent, Absent)

\* no listener accepts the connection
NoListener == 0
ListenersAt(st, url) ==
  { i \in 1..Len(st.servers) : st.servers[i].port = url.port }
Targets(st, url) ==
  IF ListenersAt(st, url) = {} THEN {NoListener} ELSE ListenersAt(st, url)

\* the route of listener i: the Json<Message> extractor runs the handler on
\* the content member of the body, and answers a body without a string
\* content member itself (422) without running the handler
receive(st, i, body) ==
  IF body.fmt = "json" /\ IsStr(body.content)
  THEN handle_message(st, i, body.content.s)
  ELSE [st EXCEPT
          !.ret = Ret("rejected", "", FALSE,
                      "Failed to deserialize the JSON body into the target type",
                      NoVal)]

\* what a capability that posted leaves in ret: the request and the
\* listener's answer
post(st, op, arg, url, body, i) ==
  LET request == [url |-> url, body |-> body]
  IN IF i = NoListener
     THEN [st EXCEPT
             !.ret = Ret(op, arg, FALSE, "Error sending message",
                         [posted |-> <<request>>, response |-> NoVal])]
     ELSE LET r == receive(st, i, body)
          IN [r EXCEPT
                !.ret = Ret(op, arg, TRUE, "Response:",
                            [posted |-> <<request>>, response |-> r.ret])]

send_message(st, url, message, i) ==
  post(st, "send_message", "", url, Envelope(message), i)

\* .json(&msg): the serialised message is the whole body
share_tool(st, url, tool_name, i) ==
  IF st.files[tool_name] = NoFile
  THEN [st EXCEPT
          !.ret = Ret("share_tool", tool_name, FALSE, "Error: Tool not found",
                      NoVal)]
  ELSE LET code == st.files[tool_name]
           msg == tool_share(tool_name, code, Some("Shared via share_tool"),
                             validate_tool_code(code))
       IN post(st, "share_tool", tool_name, url, to_json(msg), i)

(***************************************************************************)
(* The registered capabilities as execute_tool reaches them, and            *)
(* execute_tool.                                                            *)
(***************************************************************************)
\* the names registered on the engine, with the number of parameters each is
\* registered with
Builtins ==
  {"read_file", "write_file", "search", "scrape_url", "list_tools",
   "inspect_tool", "send_message", "start_server", "clone_agent",
   "list_pending_tools", "approve_tool", "reject_tool", "share_tool"}
BuiltinParams(name) ==
  CASE name \in {"list_tools", "list_pending_tools"} -> 0
    [] name \in {"write_file", "send_message", "share_tool"} -> 2
    [] OTHER -> 1
Registered == { <<b, BuiltinParams(b)>> : b \in Builtins }

\* how the file system, the network or the worker thread of a capability
\* fares
IoOutcomes == {"ok", "error", "panic"}

read_file(st, path, io) ==
  [st EXCEPT
     !.ret = Ret("read_file", path, TRUE,
                 IF io = "ok" THEN "contents" ELSE "Error reading file",
                 NoVal)]

search(st, query) ==
  [st EXCEPT !.ret = Ret("search", query, TRUE, "Mock search results for", NoVal)]

\* a scrape_url that unwraps the join of its worker thread
scrape_url_unjoined(st, url, io) ==
  [st EXCEPT
     !.ret = Ret("scrape_url", url, io # "panic",
                 CASE io = "ok" -> "body text"
                   [] io = "error" -> "Error fetching URL"
                   [] OTHER -> "Thread panic",
                 NoVal)]

\* the request runs on a worker thread that is joined
scrape_url(st, url, io) ==
  [st EXCEPT
     !.ret = Ret("scrape_url", url, TRUE,
                 CASE io = "ok" -> "body text"
                   [] io = "error" -> "Error fetching URL"
                   [] OTHER -> "Thread panic",
                 NoVal)]

\* the stems of the .rhai files of the tools directory, joined
cap_list_tools(st) ==
  [st EXCEPT
     !.ret = Ret("cap_list_tools", "", TRUE, "tools", [tools |-> Stored(st)])]

\* an inspect_tool that answers from the functions merged into the program
inspect_tool_merged(st, tool_name) ==
  IF /\ tool_name \in Paths
     /\ st.files[tool_name] # NoFile
     /\ \E f \in Signatures :
          /\ DefOf(st.files[tool_name], f) # NoFn
          /\ st.global_ast[f] = DefOf(st.files[tool_name], f)
  THEN [st EXCEPT
          !.ret = Ret("inspect_tool", tool_name, TRUE, "content",
                      [code |-> st.files[tool_name]])]
  ELSE [st EXCEPT
          !.ret = Ret("inspect_tool", tool_name, TRUE, "Error: Tool not found",
                      NoVal)]

inspect_tool(st, tool_name) ==
  IF tool_name \in Paths /\ st.files[tool_name] # NoFile
  THEN [st EXCEPT
          !.ret = Ret("inspect_tool", tool_name, TRUE, "content",
                      [code |-> st.files[tool_name]])]
  ELSE [st EXCEPT
          !.ret = Ret("inspect_tool", tool_name, TRUE, "Error: Tool not found",
                      NoVal)]

clone_agent(st, target_dir, io) ==
  [st EXCEPT
     !.ret = Ret("clone_agent", target_dir, TRUE,
                 IF io = "ok" THEN "Agent cloned successfully"
                 ELSE "Error copying executable",
                 NoVal)]

\* the first piece of a string ("" for the empty string)
Atom(s) == IF s = <<>> THEN "" ELSE s[1]

\* the fallback: the script name() or name(arg0) evaluated without the AST,
\* so that only the registered functions resolve
eval_with_scope(st, name, args, io) ==
  IF <<name, Len(args)>> \notin Registered
  THEN [st EXCEPT !.ret = Ret("eval_with_scope", name, FALSE,
                              "Function not found", NoVal)]
  ELSE CASE name = "list_tools" -> cap_list_tools(st)
         [] name = "list_pending_tools" -> cap_list_pending_tools(st)
         [] name = "read_file" -> read_file(st, Atom(args[1]), io)
         [] name = "search" -> search(st, Atom(args[1]))
         [] name = "scrape_url" -> scrape_url(st, Atom(args[1]), io)
         [] name = "inspect_tool" -> inspect_tool(st, Atom(args[1]))
         [] name = "start_server" -> start_server(st, Atom(args[1]), io = "ok")
         [] name = "clone_agent" -> clone_agent(st, Atom(args[1]), io)
         [] name = "approve_tool" -> cap_approve_tool(st, Atom(args[1]), io = "ok")
         [] OTHER -> cap_reject_tool(st, Atom(args[1]))

\* what execute_tool leaves in ret: the arguments, the value returned, the
\* fault of the first attempt ("" if it returned), whether the fallback ran
\* and what the capability it reached left
Executed(name, ok, args, value, first, fallback, native) ==
  Ret("execute_tool", name, ok, IF ok THEN "" ELSE "Error executing tool",
      [args |-> args, value |-> value, first |-> first,
       fallback |-> fallback, native |-> native])

\* an execute_tool that falls back on every fault of the first attempt
execute_tool_any_fault(st, name, args, io) ==
  LET result == call_fn(st.global_ast, name, args)
  IN IF result.ok
     THEN [st EXCEPT !.ret = Executed(name, TRUE, args, result.value, "",
                                      FALSE, NoVal)]
     ELSE LET e == eval_with_scope(st, name, args, io)
          IN [e EXCEPT
                !.ret = Executed(name, e.ret.ok, args,
                                 IF e.ret.ok THEN <<e.ret.msg>> ELSE <<>>,
                                 result.err, TRUE, e.ret)]

\* args holds no string or one; a string is given as its pieces
execute_tool(st, name, args, io) ==
  LET result == call_fn(st.global_ast, name, args)
  IN IF result.ok
     THEN [st EXCEPT !.ret = Executed(name, TRUE, args, result.value, "",
                                      FALSE, NoVal)]
     ELSE IF result.err = "Function not found"
     THEN LET e == eval_with_scope(st, name, args, io)
          IN [e EXCEPT
                !.ret = Executed(name, e.ret.ok, args,
                                 IF e.ret.ok THEN <<e.ret.msg>> ELSE <<>>,
                                 result.err, TRUE, e.ret)]
     ELSE [st EXCEPT !.ret = Executed(name, FALSE, args, <<>>, result.err,
                                      FALSE, NoVal)]

(***************************************************************************)
(* Actions.                                                                *)
(***************************************************************************)
\* the history after the sources of the tools in names were merged, one
\* after the other
RECURSIVE RecordedAll(_, _, _)
RecordedAll(st, names, last) ==
  IF names = <<>> THEN last
  ELSE RecordedAll(st, Tail(names),
                   [f \in Signatures |->
                      IF DefOf(st.files[Head(names)], f) # NoFn
                      THEN st.files[Head(names)] ELSE last[f]])

\* the history after an operation: a create or approve that succeeded has
\* merged the source it wrote, a load_tools the sources it got to
Recorded(st) ==
  IF st.ret.op \in {"create_tool", "approve_tool"} /\ st.ret.ok
  THEN RecordedAll(st, <<st.ret.arg>>, latest)
  ELSE IF st.ret.op = "load_tools"
  THEN RecordedAll(st, st.ret.val.merged, latest)
  ELSE latest

\* the state becomes st, the threads th
Act(st, th) ==
  /\ files' = st.files
  /\ global_ast' = st.global_ast
  /\ pending_tools' = st.pending_tools
  /\ servers' = st.servers
  /\ clock' = st.clock
  /\ ret' = st.ret
  /\ latest' = Recorded(st)
  /\ threads' = th

\* an operation that runs alone, from call to return
Apply(st) == Act(st, threads)

LocalAgents == {"agent_b"}

\* the (name, code) pairs the agent loop creates
CreateInputs ==
  { <<"square", SquareV1>>, <<"square", SquareV2>>, <<"cube", Broken>> }

\* the (name, code, description) triples queued locally
QueueInputs == { <<"square", SquareV2, None>>, <<"cube", SquareV1, Some("local")>> }

CreateTool ==
  \E in \in CreateInputs, wr \in BOOLEAN :
    Apply(create_tool(State, in[1], in[2], wr))

QueueTool ==
  /\ clock < MaxClock
  /\ \E in \in QueueInputs, source_agent \in LocalAgents :
       Apply(queue_tool(State, in[1], in[2], source_agent, in[3]))

ApproveTool ==
  \E name \in Names, wr \in BOOLEAN : Apply(approve_tool(State, name, wr))

RejectTool == \E name \in Names : Apply(reject_tool(State, name))

ListPendingTools == Apply(list_pending_tools(State))

CapApproveTool ==
  \E name \in Names, wr \in BOOLEAN : Apply(cap_approve_tool(State, name, wr))

CapRejectTool == \E name \in Names : Apply(cap_reject_tool(State, name))

CapListPendingTools == Apply(cap_list_pending_tools(State))

StartServer ==
  /\ clock < MaxClock
  /\ \E port \in PortArgs, free \in BOOLEAN :
       Apply(start_server(State, port, free))

HandleMessage ==
  /\ clock < MaxClock
  /\ \E i \in 1..Len(servers), content \in Payloads :
       Apply(handle_message(State, i, content))

\* the targets and texts scripts pass to the outbound capabilities
UrlPool == { Url(9999), Url(1) }
SendTexts ==
  { Plain("hello"), to_json(tool_share("square", SquareV2, None, "Safe")) }

CapSendMessage ==
  /\ clock < MaxClock
  /\ \E url \in UrlPool, message \in SendTexts :
       \E i \in Targets(State, url) :
         Apply(send_message(State, url, message, i))

CapShareTool ==
  /\ clock < MaxClock
  /\ \E url \in UrlPool, tool_name \in Names :
       \E i \in Targets(State, url) :
         Apply(share_tool(State, url, tool_name, i))

Next ==
  \/ CreateTool
  \/ QueueTool
  \/ ApproveTool
  \/ RejectTool
  \/ ListPendingTools
  \/ CapApproveTool
  \/ CapRejectTool
  \/ CapListPendingTools
  \/ StartServer
  \/ HandleMessage
  \/ CapSendMessage
  \/ CapShareTool

Spec == Init /\ [][Next]_vars

(***************************************************************************)
(* Vocabulary of the properties.                                           *)
(***************************************************************************)
\* function f resolves in the merged Program to the definition code gives it
Resolves(ast, code, f) == DefOf(code, f) # NoFn /\ ast[f] = DefOf(code, f)

\* some function of code is not callable as code defines it
Uncallable(ast, code) ==
  \E f \in Signatures : DefOf(code, f) # NoFn /\ ast[f] # DefOf(code, f)

\* q is p with the entry at index i taken out, the others in their order
WithoutEntry(p, q, i) ==
  /\ i \in 1..Len(p)
  /\ Len(q) = Len(p) - 1
  /\ \A k \in 1..Len(q) : q[k] = IF k < i THEN p[k] ELSE p[k + 1]

\* i is the earliest entry of p named n
Earliest(p, n, i) ==
  /\ i \in 1..Len(p)
  /\ p[i].name = n
  /\ \A j \in 1..Len(p) : p[j].name = n => j >= i

Queued(p, n) == \E i \in 1..Len(p) : p[i].name = n

ApproveOps == {"approve_tool", "cap_approve_tool"}
RejectOps == {"reject_tool", "cap_reject_tool"}
ListOps == {"list_pending_tools", "cap_list_pending_tools"}

(***************************************************************************)
(* C1. Approval gate: every step that changes the tool store or the merged *)
(* Program is a local create_tool or an approve of a queued entry's name   *)
(* that installs that entry's code; a step of the listener (any inbound    *)
(* message) changes neither.  So code that came in a ToolShare reaches the *)
(* store or the Program only through an approve executed after receipt.    *)
(***************************************************************************)
C1_ApprovalGate ==
  [][ /\ ret'.op = "handle_message" =>
           files' = files /\ global_ast' = global_ast
      /\ \A n \in Names :
           files'[n] # files[n] =>
             \/ ret'.op = "create_tool" /\ ret'.arg = n
             \/ /\ ret'.op \in ApproveOps
                /\ ret'.arg = n
                /\ \E i \in 1..Len(pending_tools) :
                     /\ pending_tools[i].name = n
                     /\ files'[n] = pending_tools[i].code
                     /\ WithoutEntry(pending_tools, pending_tools', i)
      /\ global_ast' # global_ast =>
             \/ ret'.op = "create_tool"
             \/ /\ ret'.op = "approve_tool"
                /\ \E i \in 1..Len(pending_tools) :
                     /\ pending_tools[i].name = ret'.arg
                     /\ global_ast' =
                          merge(global_ast, compile(pending_tools[i].code))
                     /\ WithoutEntry(pending_tools, pending_tools', i)
    ]_vars

\* an inbound proposal for "square" (the only source of SquareV1 under that
\* name in the queue) was approved and is installed, while another inbound
\* proposal is still waiting and is not in the store
C1_Witness ==
  /\ ret.op = "approve_tool" /\ ret.ok /\ ret.arg = "square"
  /\ files["square"] = SquareV1
  /\ global_ast[<<"square", 1>>] = 1
  /\ \E i \in 1..Len(pending_tools) :
       /\ pending_tools[i].source_agent = "remote_agent"
       /\ files[pending_tools[i].name] # pending_tools[i].code

(***************************************************************************)
(* C2. Queue lifecycle (approve): when ToolManager approve_tool(n) returns *)
(* success, the store holds under n the code c of the proposal it took     *)
(* (the earliest one named n) and every function c defines resolves in the *)
(* merged Program to c's definition; enqueueing the proposal (locally or   *)
(* from the network) leaves the store and the Program as they were, so the *)
(* proposal makes nothing callable before the approve.                     *)
(***************************************************************************)
C2_ApproveInstalls ==
  [][ /\ (ret'.op = "approve_tool" /\ ret'.ok) =>
           \E i \in 1..Len(pending_tools) :
             /\ Earliest(pending_tools, ret'.arg, i)
             /\ Compiles(pending_tools[i].code)
             /\ files'[ret'.arg] = pending_tools[i].code
             /\ \A f \in Signatures :
                  DefOf(pending_tools[i].code, f) # NoFn =>
                    Resolves(global_ast', pending_tools[i].code, f)
      /\ (ret'.op \in {"queue_tool", "handle_message"}) =>
           files' = files /\ global_ast' = global_ast
    ]_vars

\* approve_tool("square") has just replaced the callable square (body 1) by
\* the approved proposal's square (body 2)
C2_Witness ==
  /\ ret.op = "approve_tool" /\ ret.ok /\ ret.arg = "square"
  /\ files["square"] = SquareV2
  /\ Resolves(global_ast, SquareV2, <<"square", 1>>)

(***************************************************************************)
(* C3. The approve_tool capability compared with ToolManager approve_tool  *)
(* on the same state, name and write outcome.                              *)
(***************************************************************************)
SameQueueAndStore(a, b) ==
  a.pending_tools = b.pending_tools /\ a.files = b.files

\* C3 as claimed: the capability leaves the queue, the store and the merged
\* Program as ToolManager approve_tool leaves them
C3_CapabilityIsApprove ==
  \A n \in Names, wr \in BOOLEAN :
    LET a == approve_tool(State, n, wr)
        c == cap_approve_tool(State, n, wr)
    IN SameQueueAndStore(a, c) /\ a.global_ast = c.global_ast

\* C3 as amended: the capability leaves the PendingQueue and the ToolStore
\* as ToolManager approve_tool leaves them, but it neither compiles nor
\* merges: the merged Program is unchanged, where ToolManager approve_tool
\* merges the entry's code when it compiles
C3_CapabilityWritesOnly ==
  \A n \in Names, wr \in BOOLEAN :
    LET a == approve_tool(State, n, wr)
        c == cap_approve_tool(State, n, wr)
        i == position(pending_tools, n)
    IN /\ SameQueueAndStore(a, c)
       /\ c.global_ast = global_ast
       /\ c.servers = servers
       /\ (i # 0 /\ wr /\ Compiles(pending_tools[i].code)) =>
            a.global_ast = merge(global_ast, compile(pending_tools[i].code))
       /\ (i # 0 /\ wr) => c.files[n] = pending_tools[i].code
       /\ i # 0 => Len(c.pending_tools) = Len(pending_tools) - 1

\* the capability has approved "cube": its code is on disk, and the function
\* it defines is not callable
C3_Witness ==
  /\ ret.op = "cap_approve_tool" /\ ret.arg = "cube"
  /\ ret.msg = "approved and saved to disk. It will be available after reload."
  /\ files["cube"] = SquareV1
  /\ Uncallable(global_ast, SquareV1)

(***************************************************************************)
(* C4. Queue lifecycle (reject): a reject (method or capability) of a name *)
(* that is queued removes the earliest entry of that name and installs     *)
(* nothing: the store, the merged Program and the listeners are unchanged, *)
(* so what was uncallable stays uncallable.                                *)
(***************************************************************************)
C4_RejectInstallsNothing ==
  [][ (ret'.op \in RejectOps /\ Queued(pending_tools, ret'.arg)) =>
        /\ \E i \in 1..Len(pending_tools) :
             /\ Earliest(pending_tools, ret'.arg, i)
             /\ WithoutEntry(pending_tools, pending_tools', i)
        /\ files' = files
        /\ global_ast' = global_ast
        /\ servers' = servers
        /\ ret'.msg = "rejected and removed from queue"
        /\ \A c \in CodePool :
             Uncallable(global_ast, c) => Uncallable(global_ast', c)
    ]_vars

\* a proposal was rejected: the queue is empty again, nothing is stored and
\* nothing is callable
C4_Witness ==
  /\ ret.op \in RejectOps /\ ret.msg = "rejected and removed from queue"
  /\ pending_tools = <<>>
  /\ \A n \in Names : files[n] = NoFile
  /\ global_ast = EmptyAst

(***************************************************************************)
(* C5. First-match-only removal: a successful approve or reject of n takes *)
(* out exactly the earliest-enqueued entry named n; every other entry,     *)
(* later duplicates of n included, stays queued in the same relative       *)
(* order; a successful approve installs the code of that earliest entry.   *)
(***************************************************************************)
Succeeded(r) ==
  \/ r.op \in {"approve_tool", "reject_tool"} /\ r.ok
  \/ r.op = "cap_approve_tool"
       /\ r.msg = "approved and saved to disk. It will be available after reload."
  \/ r.op = "cap_reject_tool" /\ r.msg = "rejected and removed from queue"

C5_FirstMatchOnly ==
  [][ Succeeded(ret') =>
        \E i \in 1..Len(pending_tools) :
          /\ pending_tools[i].name = ret'.arg
          /\ \A j \in 1..(i - 1) : pending_tools[j].name # ret'.arg
          /\ \A j \in 1..(i - 1) :
               pending_tools[j].received_at < pending_tools[i].received_at
          /\ Len(pending_tools') = Len(pending_tools) - 1
          /\ \A k \in 1..(i - 1) : pending_tools'[k] = pending_tools[k]
          /\ \A k \in i..Len(pending_tools') :
               pending_tools'[k] = pending_tools[k + 1]
          /\ ret'.op \in ApproveOps => files'[ret'.arg] = pending_tools[i].code
    ]_vars

\* approve of "square" with two proposals of that name queued behind each
\* other: the earlier one's code is installed, the later duplicate (with a
\* different code) is still queued
C5_Witness ==
  /\ ret.op \in ApproveOps /\ Succeeded(ret) /\ ret.arg = "square"
  /\ \E i \in 1..Len(pending_tools) :
       /\ pending_tools[i].name = "square"
       /\ pending_tools[i].code # files["square"]

(***************************************************************************)
(* C6. approve or reject of a name that is not queued reports NotFound (an *)
(* error from the ToolManager methods, the "not found in pending queue"    *)
(* string from the capabilities) and leaves the queue, the store and the   *)
(* merged Program unchanged.                                               *)
(***************************************************************************)
C6_NotFoundChangesNothing ==
  [][ (ret'.op \in (ApproveOps \cup RejectOps)
         /\ ~Queued(pending_tools, ret'.arg)) =>
        /\ ret'.msg = "not found in pending queue"
        /\ ret'.op \in {"approve_tool", "reject_tool"} => ~ret'.ok
        /\ ret'.op \in {"cap_approve_tool", "cap_reject_tool"} => ret'.ok
        /\ pending_tools' = pending_tools
        /\ files' = files
        /\ global_ast' = global_ast
        /\ servers' = servers
    ]_vars

\* NotFound reported for a name while another name is queued
C6_Witness ==
  /\ ret.op \in (ApproveOps \cup RejectOps)
  /\ ret.msg = "not found in pending queue"
  /\ pending_tools # <<>>
  /\ ~Queued(pending_tools, ret.arg)

(***************************************************************************)
(* C7. enqueue appends at the end without deduplication (the length grows  *)
(* by one also when the name is already queued); listing changes nothing   *)
(* and enumerates the entries in queue order; every step leaves the queue  *)
(* as it was, appends one entry, or takes one entry out with the others in *)
(* their order, and the queue is always in receipt order.                  *)
(***************************************************************************)
AppendsOne(p, q) ==
  Len(q) = Len(p) + 1 /\ \A k \in 1..Len(p) : q[k] = p[k]

InReceiptOrder(p) ==
  \A i \in 1..Len(p), j \in 1..Len(p) :
    i < j => p[i].received_at < p[j].received_at

C7_EnqueueAppendsListKeeps ==
  [][ /\ ret'.op = "queue_tool" =>
           /\ AppendsOne(pending_tools, pending_tools')
           /\ pending_tools'[Len(pending_tools')].name = ret'.arg
      /\ ret'.op \in ListOps =>
           /\ pending_tools' = pending_tools
           /\ ret'.val.empty = (pending_tools = <<>>)
           /\ Len(ret'.val.lines) = Len(pending_tools)
           /\ \A i \in 1..Len(pending_tools) :
                /\ ret'.val.lines[i].idx = i
                /\ ret'.val.lines[i].name = pending_tools[i].name
                /\ ret'.val.lines[i].safety = pending_tools[i].safety_level
                /\ ret'.val.lines[i].from = pending_tools[i].source_agent
                /\ ret'.val.lines[i].description = pending_tools[i].description
      /\ \/ pending_tools' = pending_tools
         \/ AppendsOne(pending_tools, pending_tools')
         \/ \E i \in 1..Len(pending_tools) :
              WithoutEntry(pending_tools, pending_tools', i)
      /\ InReceiptOrder(pending_tools')
    ]_vars

\* queue_tool has appended a second proposal of a name that was queued
C7_Witness ==
  /\ ret.op = "queue_tool"
  /\ Len(pending_tools) >= 2
  /\ pending_tools[Len(pending_tools)].name = ret.arg
  /\ pending_tools[Len(pending_tools) - 1].name = ret.arg

(***************************************************************************)
(* C8. Every queued PendingTool carries the safety level that the          *)
(* classifier computes from its code, however it was enqueued.             *)
(***************************************************************************)
C8_QueuedLevelIsClassified ==
  \A i \in 1..Len(pending_tools) :
    pending_tools[i].safety_level = validate_tool_code(pending_tools[i].code)

(***************************************************************************)
(* C9. Receiving a ToolShare appends exactly one PendingTool at the end of *)
(* the queue, with the message's name, code and description and the fixed  *)
(* placeholder as source_agent; the acknowledgement says the tool is       *)
(* queued for approval; no message log changes.                            *)
(***************************************************************************)
C9_ToolShareIsQueued ==
  [][ (ret'.op = "handle_message"
         /\ from_json_or_text(ret'.val.content).type = "ToolShare") =>
        LET m == from_json_or_text(ret'.val.content)
            last == pending_tools'[Len(pending_tools')]
        IN /\ AppendsOne(pending_tools, pending_tools')
           /\ last.name = m.name
           /\ last.code = m.code
           /\ last.description = m.description
           /\ last.source_agent = "remote_agent"
           /\ last.received_at = clock
           /\ ret'.ok
           /\ ret'.msg = "received and queued for approval."
           /\ ret'.val.received = Ack("queued", m.name)
           /\ servers' = servers
    ]_vars

\* a ToolShare with a description was queued behind a locally queued entry
C9_Witness ==
  /\ ret.op = "handle_message"
  /\ ret.msg = "received and queued for approval."
  /\ Len(pending_tools) = 2
  /\ pending_tools[1].source_agent \in LocalAgents
  /\ pending_tools[2].source_agent = "remote_agent"
  /\ pending_tools[2].name = ret.arg
  /\ pending_tools[2].description = Some("squares")

(***************************************************************************)
(* C10. Receiving a Text appends its content at the end of the message log *)
(* of the listener that handled it, acknowledges with `received` equal to  *)
(* the content, and leaves the PendingQueue unchanged.                     *)
(***************************************************************************)
C10_TextIsLogged ==
  [][ (ret'.op = "handle_message"
         /\ from_json_or_text(ret'.val.content).type = "Text") =>
        LET content == from_json_or_text(ret'.val.content).content
        IN /\ Len(servers') = Len(servers)
           /\ \E i \in 1..Len(servers) :
                /\ servers'[i].messages = Append(servers[i].messages, content)
                /\ servers'[i].port = servers[i].port
                /\ \A j \in 1..Len(servers) : j # i => servers'[j] = servers[j]
           /\ ret'.ok
           /\ ret'.val.received = content
           /\ pending_tools' = pending_tools
    ]_vars

\* the content of a JSON Text was logged behind an earlier message and echoed
C10_Witness ==
  /\ ret.op = "handle_message"
  /\ ret.val.received = Plain("hi")
  /\ Len(servers) = 1
  /\ servers[1].messages = <<Plain("hello"), Plain("hi")>>

(***************************************************************************)
(* C11: a listener that receives a ToolRequest acknowledges it and does    *)
(* nothing else: the queue, every message log, the tool store and the      *)
(* program are as before, and the handler posts no message to any peer.    *)
(***************************************************************************)
IsRequest(r) ==
  r.op = "handle_message" /\ from_json_or_text(r.val.content).type = "ToolRequest"

C11_ToolRequestNoAction ==
  [][ IsRequest(ret') =>
        /\ pending_tools' = pending_tools
        /\ servers' = servers
        /\ files' = files
        /\ global_ast' = global_ast
        /\ ret'.val.posted = <<>>
        /\ ret'.ok
        /\ ret'.val.received = Ack("not implemented", ret'.arg) ]_vars

\* a request for a stored tool arrives while entries wait in the queue
C11_Witness ==
  /\ IsRequest(ret)
  /\ files[ret.arg] # NoFile
  /\ pending_tools # <<>>

(***************************************************************************)
(* The codec on its own: a payload is parsed, or a message is serialised   *)
(* and the result parsed.  ret carries the input and the results.          *)
(***************************************************************************)
NoMessage == [type |-> "none"]
NoPayload == [fmt |-> "none"]
Codec(op, message, payload, parsed) ==
  Ret(op, "", TRUE, "",
      [message |-> message, payload |-> payload, parsed |-> parsed])

TypeMembers ==
  {Absent, JNum, JStr("Text"), JStr("ToolShare"), JStr("ToolRequest"),
   JStr("Bogus")}
ContentMembers == {Absent, JNum, JStr(Plain("hi"))}
NameMembers == {Absent, JNum, JStr("square")}
CodeMembers == {Absent, JNum, JStr(SquareV1)}
DescriptionMembers == {Absent, JNull, JNum, JStr("squares")}
LevelMembers == {Absent, JNum, JStr("Safe"), JStr("Risky")}
RawPayloads ==
  {Plain("hello"), Plain("{\"type\":"), JsonScalar} \cup
  { JsonObject(t, c, n, code, d, l) :
      t \in TypeMembers, c \in ContentMembers, n \in NameMembers,
      code \in CodeMembers, d \in DescriptionMembers, l \in LevelMembers }

Messages ==
  { text(c) : c \in {Plain("hello"), JsonToolRequest("square"), JsonScalar} }
    \cup
  { tool_share(n, c, d, l) :
      n \in Names, c \in CodePool, d \in {None, Some("squares"), Some("")},
      l \in SafetyLevels }
    \cup
  { tool_request(n) : n \in Names }

InitCodec ==
  /\ files = [n \in Paths |-> NoFile]
  /\ global_ast = EmptyAst
  /\ pending_tools = <<>>
  /\ servers = <<>>
  /\ clock = 0
  /\ latest = [f \in Signatures |-> NoFile]
  /\ threads = AtRest
  /\ \/ \E p \in RawPayloads : ret = Codec("payload", NoMessage, p, NoMessage)
     \/ \E m \in Messages : ret = Codec("message", m, NoPayload, NoMessage)

Serialise ==
  /\ ret.op = "message"
  /\ ret' = Codec("to_json", ret.val.message, to_json(ret.val.message),
                  NoMessage)
  /\ UNCHANGED <<files, global_ast, pending_tools, servers, clock, latest,
                 threads>>

Parse ==
  /\ ret.op \in {"payload", "to_json"}
  /\ ret' = Codec("from_json_or_text", ret.val.message, ret.val.payload,
                  from_json_or_text(ret.val.payload))
  /\ UNCHANGED <<files, global_ast, pending_tools, servers, clock, latest,
                 threads>>

NextCodec == Serialise \/ Parse

SpecCodec == InitCodec /\ [][NextCodec]_vars

(***************************************************************************)
(* C12: parsing degrades gracefully.  A payload that is no JSON object,    *)
(* or carries no valid type tag, or is tagged but lacks a member its       *)
(* variant requires or has one of the wrong type, parses as the Text whose *)
(* content is the payload itself; every parse yields a message.            *)
(* (description is optional: a ToolShare without it parses, as None.)      *)
(***************************************************************************)
Tags == {JStr("Text"), JStr("ToolShare"), JStr("ToolRequest")}
Malformed(p) ==
  \/ p.fmt # "json"
  \/ p.type \notin Tags
  \/ p.type = JStr("Text") /\ p.content.j # "str"
  \/ /\ p.type = JStr("ToolShare")
     /\ \/ p.name.j # "str"
        \/ p.code.j # "str"
        \/ p.description.j = "num"
        \/ p.safety_level.j # "str"
        \/ p.safety_level.s \notin SafetyLevels
  \/ p.type = JStr("ToolRequest") /\ p.name.j # "str"

Parsed == ret.op = "from_json_or_text"

C12_ParsingDegrades ==
  Parsed =>
    /\ ret.val.parsed.type \in {"Text", "ToolShare", "ToolRequest"}
    /\ Malformed(ret.val.payload) => ret.val.parsed = text(ret.val.payload)

\* a ToolShare-tagged object without its code came back as Text
C12_Witness ==
  /\ Parsed
  /\ ret.val.payload.fmt = "json"
  /\ ret.val.payload.type = JStr("ToolShare")
  /\ ret.val.payload.code = Absent
  /\ ret.val.payload.name = JStr("square")
  /\ ret.val.parsed = text(ret.val.payload)

(***************************************************************************)
(* C13: round trip.  A message serialised with to_json and parsed back     *)
(* with from_json_or_text is the same message, variant and every field;    *)
(* the non-JSON string hello parses as the Text with content hello.        *)
(***************************************************************************)
C13_RoundTrip ==
  Parsed =>
    /\ ret.val.message # NoMessage => ret.val.parsed = ret.val.message
    /\ ret.val.payload = Plain("hello") =>
         ret.val.parsed = text(Plain("hello"))

\* a ToolShare without description went through JSON and back
C13_Witness ==
  /\ Parsed
  /\ ret.val.message # NoMessage
  /\ ret.val.message.type = "ToolShare"
  /\ ret.val.message.description = None
  /\ ret.val.parsed = ret.val.message

(***************************************************************************)
(* C14: the request share_tool posts for a stored tool is accepted by the  *)
(* inbound wire contract: the listener at the target parses it as a        *)
(* ToolShare and its queue gains one entry with the tool's name and code.  *)
(***************************************************************************)
Answered(r, op) == r.op = op /\ r.ok

C14_ShareIsQueued ==
  [][ Answered(ret', "share_tool") =>
        /\ Len(pending_tools') = Len(pending_tools) + 1
        /\ pending_tools'[Len(pending_tools')].name = ret'.arg
        /\ pending_tools'[Len(pending_tools')].code = files[ret'.arg] ]_vars

(***************************************************************************)
(* C15: send_message wraps its text as Text: whatever the text, also one   *)
(* that reads as the JSON of a ToolShare, the receiving listener handles   *)
(* it as the Text with that content (appends it to its log) and enqueues   *)
(* no pending tool.                                                        *)
(***************************************************************************)
SentText(r) == r.val.posted[1].body.content.s

C15_SendIsText ==
  [][ Answered(ret', "send_message") =>
        /\ pending_tools' = pending_tools
        /\ \E i \in 1..Len(servers) :
             servers'[i].messages = Append(servers[i].messages, SentText(ret')) ]_vars

(***************************************************************************)
(* The classifier on its own: a script is classified, or a HighRisk token  *)
(* is inserted into it and the result classified.  ret carries the script, *)
(* the level, and for an insertion the script and token it started from.   *)
(***************************************************************************)
HighRiskTokens == {"write_file", "clone_agent", "start_server", "std::process"}
MediumRiskTokens == {"read_file", "scrape_url"}
LowRiskTokens == {"send_message"}

\* the lexemes of the scripts: every token, a function, and text that brings
\* a script to the size limit, just below it, and one byte further
Lexemes ==
  { Tok(t) : t \in HighRiskTokens \cup MediumRiskTokens \cup LowRiskTokens }
    \cup { Fn("square", 1), Pad(SizeLimit), Pad(SizeLimit - 12), Pad(1) }

RECURSIVE Scripts(_)
Scripts(n) ==
  IF n = 0 THEN { <<>> }
  ELSE Scripts(n - 1) \cup
       { Append(c, l) : c \in { d \in Scripts(n - 1) : Len(d) = n - 1 },
                        l \in Lexemes }

NoCode == <<SyntaxError, SyntaxError>>
Classified(op, code, level, base, token) ==
  Ret(op, token, TRUE, level,
      [code |-> code, level |-> level, base |-> base])

\* the text with t put in before position at
Insert(code, t, at) ==
  SubSeq(code, 1, at - 1) \o <<Tok(t)>> \o SubSeq(code, at, Len(code))

InitClassify ==
  /\ files = [n \in Paths |-> NoFile]
  /\ global_ast = EmptyAst
  /\ pending_tools = <<>>
  /\ servers = <<>>
  /\ clock = 0
  /\ latest = [f \in Signatures |-> NoFile]
  /\ threads = AtRest
  /\ \E code \in Scripts(MaxLexemes) :
       ret = Classified("code", code, "", NoCode, "")

Classify ==
  /\ ret.op = "code"
  /\ ret' = Classified("validate_tool_code", ret.val.code,
                       validate_tool_code(ret.val.code), NoCode, "")
  /\ UNCHANGED <<files, global_ast, pending_tools, servers, clock, latest,
                 threads>>

InsertAndClassify ==
  /\ ret.op = "code"
  /\ \E t \in HighRiskTokens, at \in 1..(Len(ret.val.code) + 1) :
       LET code == Insert(ret.val.code, t, at)
       IN ret' = Classified("insert", code, validate_tool_code(code),
                            ret.val.code, t)
  /\ UNCHANGED <<files, global_ast, pending_tools, servers, clock, latest,
                 threads>>

NextClassify == Classify \/ InsertAndClassify

SpecClassify == InitClassify /\ [][NextClassify]_vars

(***************************************************************************)
(* C16: the classifier equals the five-rule reference on every script:     *)
(* HighRisk above 10_000 bytes or with a HighRisk token, else MediumRisk   *)
(* with read_file or scrape_url, else LowRisk with send_message, else      *)
(* Safe; the first rule that matches wins whatever lower tokens are there, *)
(* and a script of exactly 10_000 bytes without a token is Safe.           *)
(***************************************************************************)
Rank(level) ==
  CASE level = "HighRisk" -> 3
    [] level = "MediumRisk" -> 2
    [] level = "LowRisk" -> 1
    [] OTHER -> 0

Has(code, tokens) ==
  \E i \in 1..Len(code) : code[i].k = "tok" /\ code[i].n \in tokens

\* the levels whose rule matches; the reference is the gravest of them,
\* which is the first match in priority order
Matching(code) ==
  {"Safe"}
    \cup (IF CodeLen(code) > 10000 THEN {"HighRisk"} ELSE {})
    \cup (IF Has(code, HighRiskTokens) THEN {"HighRisk"} ELSE {})
    \cup (IF Has(code, MediumRiskTokens) THEN {"MediumRisk"} ELSE {})
    \cup (IF Has(code, LowRiskTokens) THEN {"LowRisk"} ELSE {})
Reference(code) ==
  CHOOSE l \in Matching(code) : \A m \in Matching(code) : Rank(m) <= Rank(l)

WasClassified == ret.op \in {"validate_tool_code", "insert"}

C17_InsertedTokenIsHighRisk ==
  ret.op = "insert" => ret.val.level = "HighRisk"

\* clone_agent went into a script that classified MediumRisk before
C17_Witness ==
  /\ ret.op = "insert"
  /\ ret.arg = "clone_agent"
  /\ Has(ret.val.base, MediumRiskTokens)
  /\ ~Has(ret.val.base, HighRiskTokens)
  /\ Len(ret.val.code) = Len(ret.val.base) + 1
  /\ ret.val.level = "HighRisk"

(***************************************************************************)
(* A session of the agent loop: tools are created (or queued and           *)
(* approved) and called.                                                   *)
(***************************************************************************)
\* the (name, code) pairs the session creates: a function and a later
\* version of it, a function of its name without parameter, a function
\* that calls it, and a script that does not compile
SessionInputs ==
  CreateInputs \cup
    { <<"cube", CubeOfSquare>>, <<"cube", SquareV1>>, <<"square", SquareV0>> }

\* the calls the agent loop makes: no argument, or one string
ArgPool == { <<>>, << <<"test">> >> }

SessionCreate ==
  \E in \in SessionInputs, wr \in BOOLEAN :
    Apply(create_tool(State, in[1], in[2], wr))

ExecuteTool ==
  \E name \in FnNames, args \in ArgPool :
    Apply(execute_tool(State, name, args, "ok"))

LoadTools == \E order \in Orders(Stored(State)) : Apply(load_tools(State, order))

NextSession ==
  SessionCreate \/ QueueTool \/ ApproveTool \/ ExecuteTool \/ LoadTools

SpecSession == Init /\ [][NextSession]_vars

\* the state a step ends in, and what a call of the function of signature f
\* returns in a state (the argument, if it takes one, is "test")
StateNext ==
  [files |-> files', global_ast |-> global_ast',
   pending_tools |-> pending_tools', servers |-> servers', clock |-> clock',
   ret |-> ret']
ArgsOf(f) == IF f[2] = 0 THEN <<>> ELSE << <<"test">> >>
Returns(st, f) == execute_tool(st, f[1], ArgsOf(f), "ok").ret
\* what body b returns on those arguments when it calls no other function
Own(b) == IF Params(b) = 0 THEN <<Suffix(b)>> ELSE <<"test", Suffix(b)>>

(***************************************************************************)
(* C18: overwrite is idempotent.  A create of tool t that succeeds leaves  *)
(* one stored source for t, the code just given, whatever version t had    *)
(* before, and a call of a function of that code then returns what that    *)
(* code computes; a create that repeats the create before it (same tool,   *)
(* same code) leaves the store and the program, hence every call, as they  *)
(* were.                                                                   *)
(***************************************************************************)
C18_LastWriteWins ==
  [][ (ret'.op = "create_tool" /\ ret'.ok) =>
        LET t == ret'.arg
            code == ret'.val.code
        IN /\ files' = [files EXCEPT ![t] = code]
           /\ \A f \in Signatures :
                DefOf(code, f) # NoFn =>
                  /\ global_ast'[f] = DefOf(code, f)
                  /\ Callee(DefOf(code, f)) = "" =>
                       /\ Returns(StateNext, f).ok
                       /\ Returns(StateNext, f).val.value = Own(DefOf(code, f))
           /\ (ret.op = "create_tool" /\ ret.ok /\ ret.arg = t
               /\ ret.val.code = code) =>
                /\ files' = files
                /\ global_ast' = global_ast ]_vars

\* version 2 of square was created over version 1 and is what a call runs
C18_Witness ==
  /\ ret.op = "create_tool"
  /\ ret.ok
  /\ ret.arg = "square"
  /\ ret.val.replaced = SquareV1
  /\ ret.val.code = SquareV2
  /\ files["square"] = SquareV2
  /\ Returns(State, <<"square", 1>>).val.value = <<"test", "_A2">>

(***************************************************************************)
(* C19 as stated: override on merge by function name.  When a source that  *)
(* defines a function name is merged, every dispatch of that name resolves *)
(* to that source's definition.                                            *)
(***************************************************************************)
Merges(r) == r.op \in {"create_tool", "approve_tool"} /\ r.ok
Defines(code, name) == \E f \in Signatures : f[1] = name /\ DefOf(code, f) # NoFn

C19_LatestNameWins ==
  [][ Merges(ret') =>
        \A f \in Signatures :
          Defines(files'[ret'.arg], f[1]) =>
            global_ast'[f] = DefOf(files'[ret'.arg], f) ]_vars

(***************************************************************************)
(* C19, amended: override on merge by name and number of parameters.       *)
(* After any sequence of merges every signature resolves to the definition *)
(* of the source merged last among those that define it (to none if no     *)
(* merged source defines it), and a call with that many arguments runs it; *)
(* a signature the program and a merged source both define gets the        *)
(* source's definition, and one the source does not define keeps its own.  *)
(***************************************************************************)
C19_LatestMergeWins ==
  [][ /\ \A f \in Signatures :
           /\ global_ast'[f] = DefOf(latest'[f], f)
           /\ (latest'[f] # NoFile /\ Callee(global_ast'[f]) = "") =>
                Returns(StateNext, f).val.value = Own(DefOf(latest'[f], f))
      /\ Merges(ret') =>
           \A f \in Signatures :
             global_ast'[f] =
               IF DefOf(files'[ret'.arg], f) # NoFn
               THEN DefOf(files'[ret'.arg], f) ELSE global_ast[f] ]_vars

\* square(x) was merged from version 1 (stored as cube) and then from
\* version 2, and resolves to version 2; square() was merged after both and
\* left square(x) in place
C19_Witness ==
  /\ files["cube"] = SquareV1
  /\ files["square"] = SquareV0
  /\ latest[<<"square", 1>>] = SquareV2
  /\ latest[<<"square", 0>>] = SquareV0
  /\ global_ast[<<"square", 1>>] = DefOf(SquareV2, <<"square", 1>>)
  /\ Merges(ret)
  /\ ret.arg = "square"

(***************************************************************************)
(* C20: composition.  A function reached through execute_tool resolves the *)
(* calls it makes in the merged program as it is at the call, whichever    *)
(* merge brought the callee: with A returning x + "_A" and B returning     *)
(* A(x) + "_B", created by separate creates, B("test") is "test_A_B".      *)
(***************************************************************************)
Called(f) == ret.op = "execute_tool" /\ ret.arg = f /\ Len(ret.val.args) = 1

C20_CallsResolveInProgram ==
  \A f \in FnNames :
    LET body == global_ast[<<f, 1>>]
        inner == global_ast[<<Callee(body), 1>>]
    IN (Called(f) /\ body # NoFn /\ Callee(body) # "" /\ inner # NoFn) =>
         /\ ret.ok
         /\ ret.val.value =
              <<ret.val.args[1][1], Suffix(inner), Suffix(body)>>
         /\ (latest[<<"square", 1>>] = SquareV1
             /\ latest[<<f, 1>>] = CubeOfSquare) =>
              ret.val.value = <<"test", "_A", "_B">>

\* cube, created after and apart from square, was called and ran square
C20_Witness ==
  /\ Called("cube")
  /\ latest[<<"square", 1>>] = SquareV1
  /\ latest[<<"cube", 1>>] = CubeOfSquare
  /\ files["square"] = SquareV1
  /\ files["cube"] = CubeOfSquare
  /\ ret.val.value = <<"test", "_A", "_B">>

(***************************************************************************)
(* C21: load_tools is fail-fast with no partial load: when a source of the *)
(* store does not compile, load_tools returns the compile error and the    *)
(* merged program is what it was before the call.                          *)
(***************************************************************************)
C21_FailedLoadMergesNothing ==
  [][ (ret'.op = "load_tools" /\ ~ret'.ok) => global_ast' = global_ast ]_vars

(***************************************************************************)
(* C22: load_tools merges in a deterministic order.  For the store as it   *)
(* is, two loads from an empty program resolve every signature alike,      *)
(* whatever the order in which the directory scan yields the files.        *)
(***************************************************************************)
Fresh == [State EXCEPT !.global_ast = EmptyAst]

C22_LoadIgnoresScanOrder ==
  \A o1 \in Orders(Stored(State)), o2 \in Orders(Stored(State)) :
    load_tools(Fresh, o1).global_ast = load_tools(Fresh, o2).global_ast

(***************************************************************************)
(* The call specification: tools are created and queued, and execute_tool  *)
(* is called with the names of script functions, of the registered         *)
(* capabilities, and of nothing.                                           *)
(***************************************************************************)
CallInputs ==
  { <<"square", SquareV1>>, <<"cube", CubeOfSquare>>, <<"cube", CubeFaults>> }
CallNames == FnNames \cup Builtins \cup {"missing"}
CallArgs == { <<>>, << <<"square">> >> }
\* the outcomes that make a difference to a call of name
IoFor(name) ==
  CASE name = "scrape_url" -> IoOutcomes
    [] name \in {"read_file", "clone_agent", "approve_tool", "start_server"} ->
         {"ok", "error"}
    [] OTHER -> {"ok"}

CallCreate ==
  \E in \in CallInputs, wr \in BOOLEAN :
    Apply(create_tool(State, in[1], in[2], wr))

CallTool ==
  \E name \in CallNames, args \in CallArgs : \E io \in IoFor(name) :
    /\ name = "start_server" => clock < MaxClock
    /\ Apply(execute_tool(State, name, args, io))

\* a peer's tool arrives in the queue
CallQueue ==
  /\ clock < MaxClock
  /\ Apply(queue_tool(State, "square", SquareV2, "agent_b", None))

NextCall == CallCreate \/ CallQueue \/ CallTool

SpecCall == Init /\ [][NextCall]_vars

\* what the capability reached by the call recorded in r left, if the call
\* reached one
Native(r) ==
  IF r.op = "execute_tool" /\ r.val.fallback THEN r.val.native
  ELSE Ret("", "", FALSE, "", NoVal)

\* a step changed nothing but ret
OnlyRet ==
  /\ files' = files
  /\ global_ast' = global_ast
  /\ pending_tools' = pending_tools
  /\ servers' = servers
  /\ clock' = clock

(***************************************************************************)
(* C23: a call falls back to the registered capabilities exactly when the  *)
(* fault of the first attempt says "Function not found".  A first attempt  *)
(* that returns is the result, with no capability run; any other fault is  *)
(* the error returned, with no capability run; a name that is neither a    *)
(* script function nor a capability yields an error.                       *)
(***************************************************************************)
C23_FallbackOnlyOnNotFound ==
  [][ ret'.op = "execute_tool" =>
        /\ ret'.val.fallback <=> ret'.val.first = "Function not found"
        /\ ret'.val.first = "" => (ret'.ok /\ OnlyRet)
        /\ ret'.val.first \notin {"", "Function not found"} =>
             (~ret'.ok /\ OnlyRet /\ ret'.val.native = NoVal)
        /\ ( /\ \A n \in 0..1 : <<ret'.arg, n>> \notin Signatures
             /\ ret'.arg \notin Builtins ) => ~ret'.ok
    ]_vars

\* a call whose first attempt did not find the name reached a capability,
\* and a call in another state stopped at the fault of the script function
C23_Witness ==
  /\ ret.op = "execute_tool"
  /\ ret.val.fallback
  /\ ret.ok
  /\ ret.val.native.op = "inspect_tool"
  /\ global_ast[<<"cube", 1>>] = 5

(***************************************************************************)
(* C24: every registered capability can be called.  For each of the        *)
(* thirteen names there are arguments, none or one string, with which      *)
(* execute_tool reaches the capability through the fallback instead of     *)
(* failing with "Function not found".                                      *)
(***************************************************************************)
C24_EveryBuiltinCallable ==
  \A b \in Builtins :
    \E args \in CallArgs : \E io \in IoFor(b) :
      LET r == execute_tool(State, b, args, io).ret
      IN r.ok /\ r.val.fallback /\ r.val.native.op # "eval_with_scope"

StoreInputs ==
  { <<"square", SquareV1>>, <<"cube", Broken>>, <<Escaping, SquareV1>>,
    <<Escaping, Broken>> }

StoreCreate ==
  \E in \in StoreInputs, wr \in BOOLEAN :
    Apply(create_tool(State, in[1], in[2], wr))

StoreApprove ==
  \E name \in Names, wr \in BOOLEAN :
    \/ Apply(approve_tool(State, name, wr))
    \/ Apply(cap_approve_tool(State, name, wr))

\* another process writes <name>.rhai into the tools directory
ExternalWrite ==
  \E name \in Names, code \in {SquareV1, SquareV2} :
    Apply([State EXCEPT !.files[name] = code,
                        !.ret = Ret("external_write", name, TRUE, "", NoVal)])

\* another process removes <name>.rhai from the tools directory
ExternalRemove ==
  \E name \in Names :
    /\ files[name] # NoFile
    /\ Apply([State EXCEPT !.files[name] = NoFile,
                           !.ret = Ret("external_remove", name, TRUE, "", NoVal)])

ListTools == Apply(list_tools(State))

CapListTools == Apply(cap_list_tools(State))

NextStore ==
  \/ StoreCreate
  \/ CallQueue
  \/ StoreApprove
  \/ ExternalWrite
  \/ ExternalRemove
  \/ ListTools
  \/ CapListTools

SpecStore == Init /\ [][NextStore]_vars

(***************************************************************************)
(* C26: listing is authoritative.  After any creates, approvals and        *)
(* outside writes and removals, list_tools, of the ToolManager and of the  *)
(* capability, returns exactly the stems of the script files that are in   *)
(* the tools directory, and the name of every tool created is among them.  *)
(***************************************************************************)
C26_ListingAuthoritative ==
  /\ list_tools(State).ret.val.tools = { n \in Paths : files[n] # NoFile }
  /\ cap_list_tools(State).ret.val.tools = { n \in Paths : files[n] # NoFile }
  /\ (ret.op = "create_tool" /\ ret.ok) =>
       ret.arg \in list_tools(State).ret.val.tools

\* what inspect_tool of name answers in a state: the code, or NoFile for
\* its "not found" string
Inspected(st, name) ==
  LET r == inspect_tool(st, name).ret
  IN IF r.msg = "Error: Tool not found" THEN NoFile ELSE r.val.code
\* the step was a create_tool that wrote its file
WroteByCreate == ret'.op = "create_tool" /\ ret'.msg # "io error"
\* the step was a call of the approve_tool capability that wrote its file
WroteByApprove ==
  /\ Native(ret').op = "cap_approve_tool"
  /\ Native(ret').msg =
       "approved and saved to disk. It will be available after reload."

(***************************************************************************)
(* C27: inspect_tool returns the code written last for the name by a       *)
(* create or an approve, unchanged, and "Error: Tool not found" when no    *)
(* source is stored under the name; it changes neither the store, nor the  *)
(* program, nor the queue.  Stated step by step: after a create or approve *)
(* that wrote, inspect answers the code written; a step that wrote nothing *)
(* under a name leaves the answer for that name as it was; before anything *)
(* is written the answer is "not found".                                   *)
(***************************************************************************)
C27_InspectReturnsLastWritten ==
  [][ /\ WroteByCreate => Inspected(StateNext, ret'.arg) = ret'.val.code
      /\ WroteByApprove =>
           Inspected(StateNext, Native(ret').arg) =
             pending_tools[position(pending_tools, Native(ret').arg)].code
      /\ \A n \in Names :
           ( /\ ~(WroteByCreate /\ ret'.arg = n)
             /\ ~(WroteByApprove /\ Native(ret').arg = n) ) =>
             Inspected(StateNext, n) = Inspected(State, n)
      /\ Native(ret').op = "inspect_tool" =>
           /\ OnlyRet
           /\ Native(ret').arg \in Names =>
                ( IF Inspected(State, Native(ret').arg) = NoFile
                  THEN ret'.val.value = <<"Error: Tool not found">>
                  ELSE Native(ret').val.code =
                         Inspected(State, Native(ret').arg) )
    ]_vars

\* inspect_tool answered the code an approve wrote over the code a create
\* had written
C27_Witness ==
  /\ ret.op = "execute_tool"
  /\ Native(ret).op = "inspect_tool"
  /\ Native(ret).msg = "content"
  /\ Native(ret).val.code = SquareV2
  /\ global_ast[<<"square", 1>>] = 1

\* the step was a create_tool whose file write succeeded
CreateWrote == ret'.op = "create_tool" /\ ret'.msg # "io error"

(***************************************************************************)
(* C28, as stated: create_tool succeeds unless the file system fails.      *)
(* Whatever the name and the code, code that is no valid script included,  *)
(* a create_tool whose file write succeeds returns success.                *)
(***************************************************************************)
C28_CreateSucceedsWhenWritten ==
  [][ CreateWrote => ret'.ok ]_vars

(***************************************************************************)
(* C28, amended: a create_tool whose file write succeeds stores the code   *)
(* it was given, and returns success exactly when that code compiles; for  *)
(* code that does not compile it returns a compile error, with the file    *)
(* written and the program unchanged.  A create_tool whose file write      *)
(* fails returns an error and changes nothing.                             *)
(***************************************************************************)
C28_CreateSucceedsIffCompiles ==
  [][ ret'.op = "create_tool" =>
        /\ CreateWrote =>
             /\ files' = [files EXCEPT ![ret'.arg] = ret'.val.code]
             /\ ret'.ok <=> Compiles(ret'.val.code)
             /\ ~ret'.ok => (ret'.msg = "Rhai compile error"
                             /\ global_ast' = global_ast)
        /\ ~CreateWrote => (~ret'.ok /\ OnlyRet)
    ]_vars

\* a create_tool that wrote code that does not compile, and failed
C28_Witness ==
  /\ ret.op = "create_tool"
  /\ ~ret.ok
  /\ ret.msg = "Rhai compile error"
  /\ files[ret.arg] = Broken

\* a listener of the runtime holds the port
Held(port) == \E i \in 1..Len(servers) : servers[i].port = port

(***************************************************************************)
(* C29, as stated: start_server is not idempotent.  Every invocation,      *)
(* whatever was invoked before, adds a new independent listener, also for  *)
(* a port that has one, and returns the "starting" string without waiting  *)
(* for the bind.                                                           *)
(***************************************************************************)
C29_EveryStartAddsListener ==
  [][ ret'.op = "start_server" =>
        /\ ret'.msg = "IPC server starting on port"
        /\ Len(servers') = Len(servers) + 1 ]_vars

(***************************************************************************)
(* C29, amended: every invocation of start_server spawns a thread that     *)
(* tries to bind the port, and returns the "starting" string whatever the  *)
(* bind does.  If the bind succeeds there is one more listener, with an    *)
(* empty message log of its own; for a port that a listener of the runtime *)
(* holds already the bind fails and there is no second listener, so that   *)
(* no two listeners hold the same port.  The queue is untouched by         *)
(* start_server, and a message handled by any listener is logged by that   *)
(* listener alone and, if it is queued, is appended to the one queue.      *)
(***************************************************************************)
C29_StartBindsFreePortOnly ==
  [][ /\ ret'.op = "start_server" =>
           /\ ret'.ok /\ ret'.msg = "IPC server starting on port"
           /\ Held(ret'.val.port) => ~ret'.val.bound
           /\ servers' = IF ret'.val.bound
                         THEN Append(servers, [port |-> ret'.val.port,
                                               messages |-> <<>>])
                         ELSE servers
           /\ pending_tools' = pending_tools
           /\ \A i, j \in 1..Len(servers') :
                i # j => servers'[i].port # servers'[j].port
      /\ ret'.op = "handle_message" =>
           /\ \/ servers' = servers
              \/ \E i \in 1..Len(servers) :
                   /\ Len(servers'[i].messages) = Len(servers[i].messages) + 1
                   /\ servers' =
                        [servers EXCEPT
                           ![i].messages =
                             Append(@, servers'[i].messages[Len(@) + 1])]
           /\ \/ pending_tools' = pending_tools
              \/ /\ Len(pending_tools') = Len(pending_tools) + 1
                 /\ SubSeq(pending_tools', 1, Len(pending_tools)) = pending_tools
    ]_vars

\* start_server was invoked for the port of the only listener, and there is
\* still one listener
C29_Witness ==
  /\ ret.op = "start_server"
  /\ ~ret.val.bound
  /\ Len(servers) = 1
  /\ servers[1].port = ret.val.port
  /\ servers[1].messages # <<>>

(***************************************************************************)
(* The interactive loop of main: one turn reads a line, asks the agent,    *)
(* and acts on the response.                                               *)
(***************************************************************************)
\* what the agent answers: maybe a ```rhai block (name and code), and maybe
\* a tool call.  The shapes of the text after "[TOOL:" are: "call", a
\* name(args) followed by "]"; "noparen", a name without "(" followed by
\* "]"; "unclosed", no "]" after it.
NoBlock == [some |-> FALSE, name |-> "", code |-> <<>>]
Block(name, code) == [some |-> TRUE, name |-> name, code |-> code]
NoCall == [shape |-> "none", name |-> "", args_str |-> <<>>]
ToolCall(shape, name, args_str) ==
  [shape |-> shape, name |-> name, args_str |-> args_str]
Response(block, call) == [block |-> block, call |-> call]

\* input.eq_ignore_ascii_case("exit"), after trim
IsExit(input) == input \in {"exit", "EXIT"}

\* what a turn leaves in ret: the lines printed with an error marker, what
\* create_tool and execute_tool returned if they were called, and what ended
\* the loop ("" while it goes on)
NotCalled == Ret("", "", TRUE, "", NoVal)
Turned(input, printed, created, executed, end) ==
  Ret("turn", input, end = "", "",
      [printed |-> printed, created |-> created, executed |-> executed,
       end |-> end])

\* one pass of the loop body.  stdio is how flushing the prompt and reading
\* the line fare, chat how the request to the model fares, wr and io how the
\* file write of create_tool and the operation under a capability fare.
turn(st, stdio, input, chat, response, wr, io) ==
  IF stdio = "error"
  THEN [st EXCEPT !.ret = Turned(input, <<>>, NotCalled, NotCalled, "io error")]
  ELSE IF IsExit(input)
  THEN [st EXCEPT !.ret = Turned(input, <<>>, NotCalled, NotCalled, "exit")]
  ELSE IF chat = "error"
  THEN [st EXCEPT !.ret = Turned(input, <<"Error:">>, NotCalled, NotCalled, "")]
  ELSE
    LET s1 == IF response.block.some
              THEN create_tool(st, response.block.name, response.block.code, wr)
              ELSE st
        created == IF response.block.some THEN s1.ret ELSE NotCalled
        p1 == IF created.ok THEN <<>> ELSE <<"Error creating tool:">>
    IN CASE response.call.shape = "unclosed" ->
              [s1 EXCEPT !.ret = Turned(input, p1, created, NotCalled, "panic")]
         [] response.call.shape = "call" ->
              LET s2 == execute_tool(s1, response.call.name,
                                     <<response.call.args_str>>, io)
              IN [s2 EXCEPT
                    !.ret = Turned(input,
                                   IF s2.ret.ok THEN p1
                                   ELSE Append(p1, "Tool Error:"),
                                   created, s2.ret, "")]
         [] OTHER ->
              [s1 EXCEPT !.ret = Turned(input, p1, created, NotCalled, "")]

Inputs == {"exit", "hello"}
Blocks ==
  { NoBlock, Block("square", SquareV1), Block("square", SquareV2),
    Block("cube", Broken) }
Calls ==
  { NoCall,
    ToolCall("call", "square", <<"test">>),
    ToolCall("call", "missing", <<"test">>),
    ToolCall("call", "scrape_url", <<"test">>),
    ToolCall("call", "list_tools", <<>>),
    ToolCall("noparen", "square", <<>>),
    ToolCall("unclosed", "square", <<"test">>) }

\* the loop goes on while no turn has ended it
Looping == ret.op = "turn" => ret.val.end = ""

Turn ==
  /\ Looping
  /\ \E stdio \in {"ok", "error"}, input \in Inputs, chat \in {"ok", "error"},
        block \in Blocks, call \in Calls, wr \in BOOLEAN, io \in IoOutcomes :
       Apply(turn(State, stdio, input, chat, Response(block, call), wr, io))

NextLoop == Turn

SpecLoop == Init /\ [][NextLoop]_vars

(***************************************************************************)
(* C30: the interactive loop never ends because a tool or the network      *)
(* failed.  In a turn in which create_tool fails, execute_tool returns an  *)
(* error or the request to the model fails, the loop prints the failure    *)
(* and goes on to read the next input; only the input "exit" ends the      *)
(* loop.                                                                   *)
(***************************************************************************)
C30_OnlyExitEndsLoop ==
  ret.op = "turn" =>
    /\ ( \/ ~ret.val.created.ok
         \/ ~ret.val.executed.ok
         \/ ret.val.printed # <<>> ) =>
         (ret.val.end = "" /\ ret.val.printed # <<>>)
    /\ ret.val.end # "" => IsExit(ret.arg)

(***************************************************************************)
(* C31: a tool call written with empty parentheses, [TOOL: list_tools()],  *)
(* is dispatched by the loop as a call without argument and returns the    *)
(* result of the tool, for list_tools the listing of the tools, instead of *)
(* a tool error.                                                           *)
(***************************************************************************)
C31_EmptyParenthesesCallNoArgument ==
  ( /\ ret.op = "turn"
    /\ ret.val.executed.op = "execute_tool"
    /\ ret.val.executed.arg = "list_tools" ) =>
    /\ ret.val.executed.val.args = <<>>
    /\ ret.val.executed.ok
    /\ Native(ret.val.executed).op = "cap_list_tools"
    /\ ret.val.printed = <<>>

(***************************************************************************)
(* C35: create_tool writes the file before it compiles.  When create_tool  *)
(* of a name fails with a compile error, the store holds the code under    *)
(* the name: inspect_tool returns it, list_tools has the name, the source  *)
(* that was there before is gone; the program is as it was before the      *)
(* call; and a load_tools over the store then fails.                       *)
(***************************************************************************)
C35_FailedCreateLeavesFile ==
  [][ (ret'.op = "create_tool" /\ ret'.msg = "Rhai compile error") =>
        /\ Inspected(StateNext, ret'.arg) = ret'.val.code
        /\ ret'.arg \in list_tools(StateNext).ret.val.tools
        /\ global_ast' = global_ast
        /\ \A order \in Orders(Stored(StateNext)) :
             ~load_tools(StateNext, order).ret.ok
    ]_vars

\* the step was an approve that found its entry and then failed to install
\* it: approve_tool returned an error, or the capability its write error
ApproveFailed ==
  /\ ret'.op \in ApproveOps
  /\ position(pending_tools, ret'.arg) # 0
  /\ \/ ret'.op = "approve_tool" /\ ~ret'.ok
     \/ ret'.op = "cap_approve_tool" /\ ret'.msg = "Error writing tool file"

(***************************************************************************)
(* C36: approve takes the entry out of the queue before it installs it.    *)
(* When an approve finds an entry and the installation fails (a compile    *)
(* error in approve_tool, a file write error in approve_tool or in the     *)
(* capability), the entry is removed from the queue and is not put back:   *)
(* the queue is the old one without that entry, and the entry is nowhere   *)
(* in it.                                                                  *)
(***************************************************************************)
C36_FailedApproveConsumesEntry ==
  [][ ApproveFailed =>
        LET i == position(pending_tools, ret'.arg)
        IN /\ pending_tools' = remove(pending_tools, i)
           /\ \A j \in 1..Len(pending_tools') :
                pending_tools'[j] # pending_tools[i]
    ]_vars

\* approve_tool failed on code that does not compile, and the queue is empty
C36_Witness ==
  /\ ret.op = "approve_tool"
  /\ ~ret.ok
  /\ ret.msg = "Rhai compile error"
  /\ pending_tools = <<>>
  /\ files["cube"] = Broken

(***************************************************************************)
(* The extension specification: a session of create_tool and approve_tool  *)
(* operations that all succeed.                                            *)
(***************************************************************************)
ExtendInputs ==
  { <<"square", SquareV1>>, <<"square", SquareV0>>, <<"cube", SquareV1>>,
    <<"cube", CubeOfSquare>> }

ExtendCreate ==
  \E in \in ExtendInputs : Apply(create_tool(State, in[1], in[2], TRUE))

ExtendApprove ==
  \E name \in Names :
    /\ position(pending_tools, name) # 0
    /\ Apply(approve_tool(State, name, TRUE))

NextExtend == ExtendCreate \/ QueueTool \/ ExtendApprove

SpecExtend == Init /\ [][NextExtend]_vars

(***************************************************************************)
(* C37: extending the program step by step agrees with loading it.  After  *)
(* any creates and approves that succeeded, every call gives what it gives *)
(* in a fresh runtime that ran load_tools over the store as it is now: the *)
(* same value, or not found in both.  A function that only a source since  *)
(* overwritten defined cannot be called any more.                          *)
(***************************************************************************)
C37_ExtensionAgreesWithLoad ==
  \A order \in Orders(Stored(State)) :
    \A f \in Signatures :
      LET here == Returns(State, f)
          there == Returns(load_tools(Fresh, order), f)
      IN here.ok = there.ok /\ here.val.value = there.val.value

(***************************************************************************)
(* The queue specification: the operations on pending_tools step by step,  *)
(* the main thread against the threads that handle requests for a          *)
(* listener.  Every operation takes the mutex, works on the queue and      *)
(* gives the mutex back; Vec::push reads the length and writes behind it.  *)
(***************************************************************************)
\* a mutex that does not exclude
free_always(th) == TRUE

\* std::sync::Mutex::lock goes through when no thread holds the mutex
Free(th) == th.lock = ""

Frame(t) == threads.run[t]
\* thread t holds the mutex
Holds(t) == threads.lock = t

\* the operations of the main thread on the queue; reject_tool and
\* list_pending_tools have the same body as method and as capability
QueueOps ==
  {"approve_tool", "cap_approve_tool", "reject_tool", "list_pending_tools"}
\* the proposal peers send
QueuePayloads == { JsonToolShare("square", SquareV1, None, "Safe") }

\* a runtime that has started a listener on port 9999
InitQueue ==
  /\ files = [n \in Paths |-> NoFile]
  /\ global_ast = EmptyAst
  /\ pending_tools = <<>>
  /\ servers = <<[port |-> 9999, messages |-> <<>>]>>
  /\ clock = 1
  /\ ret = Started("9999", TRUE)
  /\ latest = [f \in Signatures |-> NoFile]
  /\ threads = AtRest

\* the threads change, the state does not
Step(th) == Act(State, th)

\* the frame of a thread that starts to handle content; from is the thread
\* that waits for the response ("" for a peer)
handling(st, content, from) ==
  LET ipc_msg == from_json_or_text(content)
      frame == [Idle EXCEPT !.op = "handle_message", !.for = from,
                            !.content = content]
  IN CASE ipc_msg.type = "ToolShare" ->
            [frame EXCEPT
               !.pc = "lock", !.arg = ipc_msg.name,
               !.tool = PendingTool(ipc_msg.name, ipc_msg.code, "remote_agent",
                                    st.clock, ipc_msg.description,
                                    ipc_msg.safety_level)]
       [] ipc_msg.type = "Text" -> [frame EXCEPT !.pc = "log"]
       [] OTHER -> [frame EXCEPT !.pc = "log"]

\* a request of a peer reaches the listener and a thread takes it
Arrive ==
  /\ clock < MaxClock
  /\ \E t \in Listeners, content \in QueuePayloads :
       /\ Frame(t).pc = "idle"
       /\ Act([State EXCEPT !.clock = @ + 1],
              [threads EXCEPT !.run[t] = handling(State, content, "")])

\* a send_message that took the queue's mutex for the time of the request
begin_send_locked(th, message) ==
  [th EXCEPT !.lock = "main",
             !.run["main"] = [Idle EXCEPT !.pc = "post", !.op = "send_message",
                                          !.content = message]]

\* send_message: the worker thread it spawns posts the message, and the
\* main thread waits in join
begin_send(th, message) ==
  [th EXCEPT !.run["main"] = [Idle EXCEPT !.pc = "post", !.op = "send_message",
                                          !.content = message]]

Send ==
  /\ Frame("main").pc = "idle"
  /\ clock < MaxClock
  /\ \E message \in SendTexts : Step(begin_send(threads, message))

\* the listener accepts the request of the worker thread
Accept ==
  /\ Frame("main").pc = "post"
  /\ \E t \in Listeners :
       /\ Frame(t).pc = "idle"
       /\ Act([State EXCEPT !.clock = @ + 1],
              [threads EXCEPT
                 !.run["main"].pc = "join",
                 !.run[t] = handling(State, Frame("main").content, "main")])

\* the main thread calls an operation of the queue
Begin ==
  /\ Frame("main").pc = "idle"
  /\ \E op \in QueueOps :
       Step([threads EXCEPT
               !.run["main"] = [Idle EXCEPT !.pc = "lock", !.op = op,
                                            !.arg = "square"]])

\* pending_tools.lock(); the thread of a listener then starts its
\* tools.push(pending): it reads where the vector ends
Lock ==
  \E t \in Threads :
    /\ Frame(t).pc = "lock"
    /\ Free(threads)
    /\ Step([threads EXCEPT
               !.lock = t,
               !.run[t].n = IF t \in Listeners THEN Len(pending_tools) ELSE @,
               !.run[t].pc =
                 CASE Frame(t).op = "handle_message" -> "write"
                   [] Frame(t).op = "list_pending_tools" -> "read"
                   [] OTHER -> "find"])

\* tools.push(pending), second half: the entry goes behind that end
Write ==
  \E t \in Listeners :
    /\ Frame(t).pc = "write"
    /\ LET kept == IF Frame(t).n < Len(pending_tools) THEN Frame(t).n
                   ELSE Len(pending_tools)
       IN Act([State EXCEPT
                 !.pending_tools =
                   Append(SubSeq(pending_tools, 1, kept), Frame(t).tool)],
              [threads EXCEPT
                 !.run[t].pc = "unlock",
                 !.run[t].out = "received and queued for approval.",
                 !.pushed = Append(@, Frame(t).tool)])

\* the threads after the handler on thread t answered: a worker thread that
\* waited for the response ends, which lets the join of the main thread go
\* through
answered(th, t) ==
  [th EXCEPT
     !.run[t] = Idle,
     !.run["main"] = IF th.run[t].for = "main"
                     THEN [@ EXCEPT !.pc = "return", !.out = "Response:"]
                     ELSE @]

\* a Text goes to the log of the listener, and is the answer; a ToolRequest
\* is only answered
LogText ==
  \E t \in Listeners :
    /\ Frame(t).pc = "log"
    /\ LET ipc_msg == from_json_or_text(Frame(t).content)
       IN Act([State EXCEPT
                 !.servers[1].messages =
                   IF ipc_msg.type = "Text" THEN Append(@, ipc_msg.content)
                   ELSE @],
              answered(threads, t))

\* tools.iter().position(|t| t.name == name)
Find ==
  /\ Frame("main").pc = "find"
  /\ LET index == position(pending_tools, Frame("main").arg)
     IN Step([threads EXCEPT
                !.run["main"].n = index,
                !.run["main"].pc = IF index = 0 THEN "unlock" ELSE "remove",
                !.run["main"].out =
                  IF index = 0 THEN "not found in pending queue" ELSE ""])

\* tools.remove(index)
Remove ==
  /\ Frame("main").pc = "remove"
  /\ Frame("main").n \in 1..Len(pending_tools)
  /\ LET index == Frame("main").n
         tool == pending_tools[index]
     IN Act([State EXCEPT !.pending_tools = remove(@, index)],
            [threads EXCEPT
               !.run["main"].tool = tool,
               !.run["main"].pc =
                 IF Frame("main").op = "cap_approve_tool" THEN "write_file"
                 ELSE "unlock",
               !.run["main"].out =
                 IF Frame("main").op = "reject_tool"
                 THEN "rejected and removed from queue" ELSE "",
               !.taken = Append(@, tool)])

\* the capability approve_tool: fs::write with the guard still alive
WriteFile ==
  /\ Frame("main").pc = "write_file"
  /\ \E wr \in {TRUE} :
       LET tool == Frame("main").tool
       IN Act([State EXCEPT
                 !.files[tool.name] = IF wr THEN tool.code ELSE @],
              [threads EXCEPT
                 !.run["main"].pc = "unlock",
                 !.run["main"].out =
                   IF wr
                   THEN "approved and saved to disk. It will be available after reload."
                   ELSE "Error writing tool file",
                 !.installed = IF wr THEN Append(@, tool) ELSE @])

\* the listing is built from the queue as it is
Read ==
  /\ Frame("main").pc = "read"
  /\ Step([threads EXCEPT
             !.run["main"].snap = pending_tools,
             !.run["main"].pc = "unlock",
             !.run["main"].out =
               IF pending_tools = <<>> THEN "No tools pending approval."
               ELSE "Pending Tools:"])

\* the guard goes out of scope, or is dropped; the handler then answers
Unlock ==
  \E t \in Threads :
    /\ Frame(t).pc = "unlock"
    /\ LET released == [threads EXCEPT !.lock = IF @ = t THEN "" ELSE @]
       IN IF t \in Listeners
          THEN Step(answered(released, t))
          ELSE Step([released EXCEPT
                       !.run[t].pc =
                         IF Frame(t).op = "approve_tool" /\ Frame(t).n # 0
                         THEN "install" ELSE "return"])

\* ToolManager::approve_tool: create_tool, after drop(tools)
Install ==
  /\ Frame("main").pc = "install"
  /\ \E wr \in {TRUE} :
       LET tool == Frame("main").tool
           made == create_tool(State, tool.name, tool.code, wr)
       IN Act([made EXCEPT !.ret = ret],
              [threads EXCEPT
                 !.run["main"].pc = "return",
                 !.run["main"].out =
                   IF made.ret.ok THEN "approved and installed successfully"
                   ELSE made.ret.msg,
                 !.installed = IF made.ret.ok THEN Append(@, tool) ELSE @])

\* the operation of the main thread returns
Return ==
  /\ Frame("main").pc = "return"
  /\ Act([State EXCEPT
            !.ret = Ret(Frame("main").op, Frame("main").arg,
                        Frame("main").out \notin
                          {"not found in pending queue", "Rhai compile error",
                           "io error"},
                        Frame("main").out, NoVal)],
         [threads EXCEPT
            !.lock = IF @ = "main" THEN "" ELSE @,
            !.run["main"] = Idle])

NextQueue ==
  \/ Arrive
  \/ Send
  \/ Accept
  \/ Begin
  \/ Lock
  \/ Write
  \/ LogText
  \/ Find
  \/ Remove
  \/ WriteFile
  \/ Read
  \/ Unlock
  \/ Install
  \/ Return

\* the scheduler runs every thread that can take a step
SpecQueue ==
  InitQueue /\ [][NextQueue]_vars /\ WF_vars(NextQueue)

\* the entries of a sequence
Entries(s) == { s[i] : i \in 1..Len(s) }

\* no entry is in the sequence twice
Once(s) == \A i, j \in 1..Len(s) : s[i] = s[j] => i = j

\* s is the start of t
StartOf(s, t) == Len(s) <= Len(t) /\ s = SubSeq(t, 1, Len(s))

\* the queue the operations completed so far give when they run one at a
\* time: what was pushed, in the order of the pushes, without what was taken
Sequential ==
  LET Waiting(e) == e \notin Entries(threads.taken)
  IN SelectSeq(threads.pushed, Waiting)

(***************************************************************************)
(* C32: the queue behaves as if its operations ran one at a time.  The     *)
(* queue is always what the completed pushes and removals give in their    *)
(* order, so no pushed proposal is lost; no entry is taken or installed    *)
(* twice, and only a taken entry is installed; the snapshot a listing      *)
(* took is the queue of that moment, and stays a start of the sequential   *)
(* queue until the listing returns.                                        *)
(***************************************************************************)
C32_QueueRunsOneAtATime ==
  /\ pending_tools = Sequential
  /\ Once(threads.pushed) /\ Once(threads.taken) /\ Once(threads.installed)
  /\ Entries(threads.taken) \subseteq Entries(threads.pushed)
  /\ Entries(threads.installed) \subseteq Entries(threads.taken)
  /\ Frame("main").op = "list_pending_tools"
       /\ Frame("main").pc \in {"unlock", "return"}
     => /\ StartOf(Frame("main").snap, Sequential)
        /\ Frame("main").pc = "unlock" => Frame("main").snap = pending_tools

\* an approval is between its removal and its install while a listener has
\* pushed the next proposal and not yet released the mutex
C32_Witness ==
  /\ Frame("main").pc = "install"
  /\ Len(threads.taken) = 1
  /\ Len(pending_tools) = 1
  /\ \E t \in Listeners : Frame(t).pc = "unlock" /\ Holds(t)

(***************************************************************************)
(* C33: short critical sections.  The thread that writes a tool file or    *)
(* merges a compiled source does not hold the mutex of the queue in that   *)
(* step, and the main thread does not hold it while its worker posts a     *)
(* message and is joined.                                                  *)
(***************************************************************************)
C33_NoIoUnderMutex ==
  [][/\ (files' # files \/ global_ast' # global_ast) => ~Holds("main")
     /\ Frame("main").pc \in {"post", "join"} => ~Holds("main")]_vars

(***************************************************************************)
(* C34: send_message to the listener of the same process completes.  Once  *)
(* the main thread has spawned the worker and waits for it, the listener   *)
(* handles the message, the worker is joined and the call returns the      *)
(* response; the main thread holds the mutex of the queue at no point of   *)
(* the call.                                                               *)
(***************************************************************************)
C34_SendToOwnListenerReturns ==
  /\ [](Frame("main").op = "send_message" => ~Holds("main"))
  /\ (Frame("main").op = "send_message")
       ~> (/\ Frame("main").op = "send_message"
           /\ Frame("main").pc = "return"
           /\ Frame("main").out = "Response:")

\* a send_message whose message was a ToolShare is about to return: the
\* listener took the mutex and queued the proposal while the caller waited
C34_Witness ==
  /\ Frame("main").op = "send_message"
  /\ Frame("main").pc = "return"
  /\ from_json_or_text(Frame("main").content).type = "ToolShare"
  /\ pending_tools # <<>>
  /\ pending_tools[Len(pending_tools)].code
       = from_json_or_text(Frame("main").content).code

====
